---- MODULE Spec2Model ----
(***************************************************************************)
(* Program scheduling core of the LED matrix sign (ws_display):            *)
(*   time_keeper       - scaled clock (time_keeper.py)                     *)
(*   program_manager   - registry, active program, run_program             *)
(*   program_scheduler - may_update_program switching policy               *)
(* Time is counted in whole seconds.  The real clock advances by Tick;     *)
(* the scaled clock is advanced lazily by every read, as in the source.    *)
(***************************************************************************)
EXTENDS Integers, Sequences, FiniteSets, TLC

(* ------------------------------ bounds --------------------------------- *)
\* the clocks stop advancing once the scaled clock would pass this reading
MaxVirtualTime == 200
\* timescale factors the control panel may install: 1..MaxTimescale
MaxTimescale == 2
\* number of timescale changes in one run
MaxScaleChanges == 1
\* real seconds a directly driven clock is followed for
MaxClockTime == 50
\* tenths of a second a menu is followed for
MaxMenuTime == 70
\* number of items a menu list may hold
MaxMenuLen == 2
\* number of set_menu_items and set_active_item calls in one run
MaxMenuCalls == 3
\* seconds a workshop_runner is followed for after its construction
MaxWorkshopTime == 20
\* number of listeners registered with a UserInput in one run
MaxListeners == 3
\* tenths of a second a scrolling name is followed for, frame by frame
MaxScrollTime == 16
\* seconds a frame loop with outside set_active_program calls is followed for
MaxOutsideTime == 6

\* real seconds that may pass between two operations
TickSteps == {10}
\* real seconds between two frames of the frame loop
FrameSteps == {3, 5}

(* --------------------------- program constants -------------------------- *)
None == "None"
\* get_play_duration_seconds() = None: the program runs indefinitely
NoDuration == -1
\* no such moment
NoTime == -1

DISPLAY_SCREENSAVER_AFTER_SECONDS == 30
\* timedelta(minutes=3) in program_scheduler.__init__
BurnStartDelaySeconds == 180
\* program_runner.get_play_duration_seconds default
DefaultPlayDuration == 10
\* gnome_message_runner.get_play_duration_seconds
GnomePlayDuration == 30

SELF_TERMINATED == "SELF_TERMINATED"
DURATION_EXPIRED == "DURATION_EXPIRED"

eye_program_runner == "eye_program_runner"
workshop_runner == "workshop_runner"
gnome_message_runner == "gnome_message_runner"
teeth_program_runner == "teeth_program_runner"
care_bear_program_runner == "care_bear_program_runner"
burn_program_runner == "burn_program_runner"

\* One registered program: its runtime type, the answers of its capability
\* methods, and whether its render can ever return finished = True.
Program(t, ss, dur, fin) ==
  [type |-> t, is_screen_saver |-> ss, play_duration |-> dur, can_finish |-> fin]

\* programs_to_add of program_manager.initialize_programs, in order.
\* Only gnome_message_runner overrides is_screen_saver / the play duration;
\* only eye_program_runner.render ever returns finished = True.
programs_to_add ==
  << Program(eye_program_runner, FALSE, DefaultPlayDuration, TRUE),
     Program(workshop_runner, FALSE, DefaultPlayDuration, FALSE),
     Program(gnome_message_runner, TRUE, GnomePlayDuration, FALSE),
     Program(teeth_program_runner, FALSE, DefaultPlayDuration, FALSE),
     Program(care_bear_program_runner, FALSE, DefaultPlayDuration, FALSE),
     Program(burn_program_runner, FALSE, DefaultPlayDuration, FALSE) >>

\* The scheduler receives its program_manager as a constructor argument.
\* Besides the registry built by initialize_programs, the model runs the
\* scheduler on registries that differ in the capability answers of the
\* programs of the screensavers package: none a screensaver, three
\* screensavers, and a screensaver without play duration (None).
WithCapabilities(ss, unset) ==
  [i \in 1..Len(programs_to_add) |->
     LET p == programs_to_add[i] IN
     IF p.type \in {workshop_runner, burn_program_runner} THEN p
     ELSE Program(p.type, p.type \in ss,
                  IF p.type \in unset THEN NoDuration ELSE p.play_duration,
                  p.can_finish)]

Registries ==
  { programs_to_add,
    WithCapabilities({}, {}),
    WithCapabilities({eye_program_runner, gnome_message_runner, teeth_program_runner}, {}),
    WithCapabilities({gnome_message_runner, care_bear_program_runner}, {care_bear_program_runner}) }

VARIABLES
  real_clock,               \* time.time() / datetime.now() of the host
  timescale,                \* time_keeper._timescale
  last_real_time,           \* time_keeper._last_real_time
  last_returned_time,       \* time_keeper._last_returned_time
  last_real_datetime,       \* time_keeper._last_real_datetime
  last_returned_datetime,   \* time_keeper._last_returned_datetime
  programs,                 \* program_manager.programs
  active_program,           \* program_manager.active_program (its type) or None
  program_start_time,       \* program_manager.program_start_time
  last_program_switch_time, \* program_scheduler.last_program_switch_time
  last_screen_saver_index,  \* program_scheduler.last_screen_saver_index
  burn_start_time,          \* program_scheduler.burn_start_time
  burn_end_time,            \* program_scheduler.burn_end_time
  result,                   \* program_runner_result of the current frame
  pc,                       \* position in the frame loop
  last,                     \* history: the operation that ran last
  idle_switches,            \* history: number of idle-timeout switches so far
  burn_activations,         \* history: number of times the scheduler started the burn program
  base_return_time,         \* history: when a finished screensaver last gave way to the
                            \*   initial program, NoTime once another program was started
  scale_changes,            \* history: number of set_timescale calls so far
  ideal_time,               \* history: sum of (real seconds passed) x (timescale then)
  clock_last,               \* history: the last time_keeper call
  menu_now,                 \* MenuRenderer.get_current_time(), in tenths of a second
  menu_items,               \* MenuRenderer.menu_items (the name width of each item)
  active_item_index,        \* MenuRenderer.active_item_index
  last_active_change_time,  \* MenuRenderer.last_active_change_time
  scroll_start_times,       \* MenuRenderer.scroll_start_times
  scroll_directions,        \* MenuRenderer.scroll_directions
  drawn,                    \* scroll offset of each row drawn by the last render
  menu_last,                \* history: the last MenuRenderer call
  menu_calls,               \* history: number of set_menu_items/set_active_item calls
  ws_now,                   \* time.time() as workshop_runner reads it, in seconds
  displayed_workshops,      \* workshop_runner.displayed_workshops (title width of each)
  current_location_index,   \* workshop_runner.current_location_index
  last_location_change_time,\* workshop_runner.last_location_change_time
  last_workshop_update_time,\* workshop_runner.last_workshop_update_time
  screen_saver_fn,          \* workshop_runner.screen_saver_fn is not None
  ws_scroll_start_times,    \* workshop_runner.scroll_start_times
  ws_scroll_directions,     \* workshop_runner.scroll_directions
  ws_drawn,                 \* scroll offset of each row drawn by the last render
  ws_last,                  \* history: the last workshop_runner call
  up_listeners,             \* UserInput._up_listeners
  down_listeners,           \* UserInput._down_listeners
  click_listeners,          \* UserInput._click_listeners
  invoked,                  \* history: the listeners called by the last event, in order
  input_last,               \* history: the last UserInput call
  eye_now,                  \* time.time() as eye_program_runner reads it, in seconds
  current_image_index,      \* eye_program_runner.current_image_index
  last_image_change_time,   \* eye_program_runner.last_image_change_time
  current_image_name,       \* eye_program_runner.current_image_name
  prev_image_name,          \* eye_program_runner.prev_image_name
  eye_last,                 \* history: the last eye_program_runner.render call
  config_file,              \* config.yaml: whether it exists and what it holds
  webui_config,             \* WebUI.config, the Config instance the web UI edits
  config_last               \* history: the last _save_config / get_config call

vars == << real_clock, timescale, last_real_time, last_returned_time,
           last_real_datetime, last_returned_datetime, programs,
           active_program, program_start_time, last_program_switch_time,
           last_screen_saver_index, burn_start_time, burn_end_time,
           result, pc, last, idle_switches, burn_activations,
           base_return_time, scale_changes,
           ideal_time, clock_last, menu_now, menu_items, active_item_index,
           last_active_change_time, scroll_start_times, scroll_directions,
           drawn, menu_last, menu_calls, ws_now, displayed_workshops,
           current_location_index, last_location_change_time,
           last_workshop_update_time, screen_saver_fn, ws_scroll_start_times,
           ws_scroll_directions, ws_drawn, ws_last, up_listeners,
           down_listeners, click_listeners, invoked, input_last,
           eye_now, current_image_index, last_image_change_time,
           current_image_name, prev_image_name, eye_last,
           config_file, webui_config, config_last >>

clock_vars == << timescale, last_real_time, last_returned_time,
                 last_real_datetime, last_returned_datetime >>
manager_vars == << programs, active_program, program_start_time >>
scheduler_vars == << last_program_switch_time, last_screen_saver_index,
                     burn_start_time, burn_end_time >>
frame_vars == << result, pc, last, idle_switches, burn_activations,
                 base_return_time, scale_changes >>
clock_history == << ideal_time, clock_last >>
menu_vars == << menu_now, menu_items, active_item_index, last_active_change_time,
                scroll_start_times, scroll_directions, drawn, menu_last,
                menu_calls >>
workshop_vars == << ws_now, displayed_workshops, current_location_index,
                    last_location_change_time, last_workshop_update_time,
                    screen_saver_fn, ws_scroll_start_times, ws_scroll_directions,
                    ws_drawn, ws_last >>
input_vars == << up_listeners, down_listeners, click_listeners, invoked,
                 input_last >>
eye_vars == << eye_now, current_image_index, last_image_change_time,
               current_image_name, prev_image_name, eye_last >>
config_vars == << config_file, webui_config, config_last >>

(* ----------------------------- time_keeper ------------------------------ *)
\* mutant: the elapsed real time is added without the multiplier
time_value_unscaled == last_returned_time + (real_clock - last_real_time)

\* the value time_keeper.time() returns when read at the present real time
time_value == last_returned_time + (real_clock - last_real_time) * timescale

\* the value time_keeper.now() returns when read at the present real time
now_value == last_returned_datetime + (real_clock - last_real_datetime) * timescale

\* effect of time_keeper.time() on the clock state
time ==
  /\ last_real_time' = real_clock
  /\ last_returned_time' = time_value

\* effect of time_keeper.now() on the clock state
now ==
  /\ last_real_datetime' = real_clock
  /\ last_returned_datetime' = now_value

(* --------------------------- program_manager ---------------------------- *)
program_types == { programs[i].type : i \in 1..Len(programs) }

\* program_manager.get_program_by_type: the registered program or None
get_program_by_type(t) ==
  IF t \in program_types
    THEN (CHOOSE i \in 1..Len(programs) : programs[i].type = t)
    ELSE 0

ProgramOf(t) == programs[get_program_by_type(t)]

\* program_manager.get_screensaver_programs: registration order, filtered
get_screensaver_programs ==
  SelectSeq(programs, LAMBDA p : p.is_screen_saver)

\* program_runner_result(canvas): nothing finished
NoResult == [finished_program_type |-> None, finish_reason |-> None]

\* mutant: the boundary frame is not counted as expired
PlayDurationExpired_strict(play_duration, current_time, start_time) ==
  play_duration # NoDuration /\ current_time - start_time > play_duration

\* the play-duration test of run_program (program_manager.py line 216)
PlayDurationExpired(play_duration, current_time, start_time) ==
  play_duration # NoDuration /\ current_time - start_time >= play_duration

\* mutant: the play duration is tested before the finished flag
run_program_result_duration_first(finished) ==
  IF active_program = None THEN NoResult
  ELSE IF ProgramOf(active_program).play_duration # NoDuration
          /\ time_value - program_start_time >= ProgramOf(active_program).play_duration
    THEN [finished_program_type |-> active_program, finish_reason |-> DURATION_EXPIRED]
  ELSE IF finished
    THEN [finished_program_type |-> active_program, finish_reason |-> SELF_TERMINATED]
  ELSE NoResult

\* program_manager.run_program: the result of one frame of the active
\* program whose render returned `finished`.  The self-termination test
\* comes first; the clock is read only after it.
run_program_result(finished) ==
  IF active_program = None THEN NoResult
  ELSE IF finished
    THEN [finished_program_type |-> active_program, finish_reason |-> SELF_TERMINATED]
  ELSE IF PlayDurationExpired(ProgramOf(active_program).play_duration,
                              time_value, program_start_time)
    THEN [finished_program_type |-> active_program, finish_reason |-> DURATION_EXPIRED]
  ELSE NoResult

\* whether run_program reaches its time_keeper.time() read (line 213)
run_program_reads_clock(finished) == active_program # None /\ ~finished

(* -------------------------- program_scheduler --------------------------- *)
\* mutant: falls back to the manager's default, the first registered program
InitialProgramType_first == programs[1].type

\* program_scheduler._set_initial_program: the first registered type that
\* is a workshop_runner, or None when there is none (nothing is activated)
InitialProgramType ==
  IF \E i \in 1..Len(programs) : programs[i].type = workshop_runner
    THEN programs[CHOOSE i \in 1..Len(programs) :
                    /\ programs[i].type = workshop_runner
                    /\ \A j \in 1..(i - 1) : programs[j].type # workshop_runner].type
    ELSE None

\* the type the burn loop of may_update_program activates (lines 101-105)
BurnProgramType ==
  IF burn_program_runner \in program_types THEN burn_program_runner ELSE None

\* mutant: the window never closes
should_run_burn_program_unending(current_time) ==
  current_time >= burn_start_time

\* mutant: the window opens one reading late
should_run_burn_program_late(current_time) ==
  current_time > burn_start_time /\ current_time < burn_end_time

\* program_scheduler._should_run_burn_program
should_run_burn_program(current_time) ==
  current_time >= burn_start_time /\ current_time < burn_end_time

\* mutant: the difference is taken the wrong way round
IdleTimeoutReached_reversed(current_time, switch_time) ==
  switch_time - current_time >= DISPLAY_SCREENSAVER_AFTER_SECONDS

\* mutant: compares the clock reading itself with the threshold
IdleTimeoutReached_absolute(current_time, switch_time) ==
  current_time >= DISPLAY_SCREENSAVER_AFTER_SECONDS

\* the idle test of may_update_program (line 120)
IdleTimeoutReached(current_time, switch_time) ==
  current_time - switch_time >= DISPLAY_SCREENSAVER_AFTER_SECONDS

\* mutant: the idle rule also applies while a screensaver is running
MayStartScreensaver_always(p) == TRUE

\* whether the idle rule is considered for the active program (line 119)
MayStartScreensaver(p) == ~p.is_screen_saver

\* truthiness of a program_runner object: no program class defines
\* __bool__ or __len__, so every registered program is truthy
Truthy(p) == TRUE

\* mutant: the index is not advanced
NextScreenSaverIndex_stuck(index, n) == index

\* mutant: the index skips a slot
NextScreenSaverIndex_skip(index, n) == (index + 2) % n

\* the index _get_next_screensaver leaves behind (lines 71 and 73)
NextScreenSaverIndex(index, n) == (index + 1) % n

\* program_scheduler._get_next_screensaver: the selected type (or None)
\* and the new round-robin index
get_next_screensaver ==
  LET screensavers == get_screensaver_programs IN
  IF Len(screensavers) = 0
    THEN [type |-> None, index |-> last_screen_saver_index]
  ELSE LET screensaver == screensavers[last_screen_saver_index + 1] IN
    IF ~Truthy(screensaver)
      THEN [type |-> None,
            index |-> NextScreenSaverIndex(last_screen_saver_index, Len(screensavers))]
      ELSE [type |-> screensaver.type,
            index |-> NextScreenSaverIndex(last_screen_saver_index, Len(screensavers))]

\* mutant: the running burn program is not recognised
running_burn_program_never(active) == FALSE

\* isinstance(active_program, burn_program_runner) (lines 99 and 108)
running_burn_program(active) == active = burn_program_runner

\* The branch may_update_program takes (lines 87-125).
ScheduleRule(res) ==
  IF active_program = None THEN "no_active"
  ELSE IF res.finished_program_type # None THEN "finished"
  ELSE IF should_run_burn_program(now_value)
    THEN (IF ~running_burn_program(active_program) /\ BurnProgramType # None
            THEN "burn_enter" ELSE "burn_stay")
  ELSE IF running_burn_program(active_program) /\ InitialProgramType # None
    THEN "burn_exit"
  ELSE IF MayStartScreensaver(ProgramOf(active_program))
          /\ IdleTimeoutReached(time_value, last_program_switch_time)
    THEN (IF get_next_screensaver.type # None THEN "idle" ELSE "idle_empty")
  ELSE "stay"

\* mutant: the looked-up program is stored before it is tested
set_active_program_result_unchecked(t) ==
  [active |-> IF get_program_by_type(t) # 0 THEN t ELSE None,
   start |-> time_value,
   returned |-> get_program_by_type(t) # 0]

\* program_manager.set_active_program(t): the active program and start time
\* it leaves behind and the value it returns (lines 161-169)
set_active_program_result(t) ==
  IF get_program_by_type(t) # 0
    THEN [active |-> t, start |-> time_value, returned |-> TRUE]
    ELSE [active |-> active_program, start |-> program_start_time, returned |-> FALSE]

\* program_manager.set_active_program
set_active_program(t) ==
  /\ active_program' = set_active_program_result(t).active
  /\ program_start_time' = set_active_program_result(t).start

(* ------------------------------ history -------------------------------- *)
\* What the last operation saw and did; overwritten by every operation.
NoOp(name) ==
  [op |-> name, rule |-> "none", finished |-> FALSE, reason |-> None,
   render_finished |-> FALSE, play_duration |-> NoDuration,
   current_time |-> 0, now |-> 0, prev_active |-> None,
   prev_start_time |-> 0, prev_switch_time |-> 0, prev_index |-> 0,
   selected |-> None, arg |-> None, returned |-> FALSE,
   prev_burn_activations |-> 0, prev_return_time |-> NoTime]

\* What the last time_keeper call saw and returned.
NoClockOp(name) ==
  [op |-> name, factor |-> 0, raised |-> FALSE, returned |-> 0,
   now_returned |-> 0, prev_op |-> "none", prev_returned |-> 0,
   prev_state |-> << 0, 0, 0, 0, 0 >>]

\* nothing has been read from the clock yet
ClockHistoryInit ==
  /\ ideal_time = 0
  /\ clock_last = NoClockOp("init")

\* What the last MenuRenderer call saw.
NoMenuOp(name) ==
  [op |-> name, at |-> 0, arg |-> 0, prev_active |-> 0, prev_change |-> 0,
   prev_starts |-> << >>, prev_directions |-> << >>]

\* MenuRenderer.__init__: no items, row 0 active, empty scroll state
MenuRendererInit ==
  /\ menu_now = 0
  /\ menu_items = << >>
  /\ active_item_index = 0
  /\ last_active_change_time = 0
  /\ scroll_start_times = << >>
  /\ scroll_directions = << >>
  /\ drawn = << >>
  /\ menu_last = NoMenuOp("init")
  /\ menu_calls = 0

\* workshop_runner constructor defaults, in seconds
location_display_time == 5
workshop_update_interval == 30

\* What the last workshop_runner call saw.
NoWorkshopOp(name) ==
  [op |-> name, updated |-> FALSE, switched |-> FALSE,
   prev_index |-> 0, prev_change |-> 0, prev_displayed |-> << >>,
   prev_starts |-> << >>, prev_directions |-> << >>]

\* workshop_runner.__init__: nothing displayed, row 0 current, never updated.
\* time.time() is far beyond workshop_update_interval when the runner is
\* built; the model's clock starts at workshop_update_interval.
WorkshopRunnerInit ==
  /\ ws_now = workshop_update_interval
  /\ displayed_workshops = << >>
  /\ current_location_index = 0
  /\ last_location_change_time = workshop_update_interval
  /\ last_workshop_update_time = 0
  /\ screen_saver_fn = FALSE
  /\ ws_scroll_start_times = << >>
  /\ ws_scroll_directions = << >>
  /\ ws_drawn = << >>
  /\ ws_last = NoWorkshopOp("init")

\* UserInput.__init__: no listeners
UserInputInit ==
  /\ up_listeners = << >>
  /\ down_listeners = << >>
  /\ click_listeners = << >>
  /\ invoked = << >>
  /\ input_last = "init"

(* --------------------------- eye_program_runner ------------------------- *)
\* eye_program_runner.image_names, in sequence order
image_names == << "eye", "eyeL", "eyeR", "eyeClose" >>

\* eye_program_runner.image_display_time, in seconds
image_display_time == 1

\* no render has happened yet
NoEyeOp ==
  [op |-> "init", finished |-> FALSE, shown |-> "",
   reported_before |-> FALSE, close_again_before |-> FALSE,
   reported |-> FALSE, new_pass |-> FALSE, close_again |-> FALSE]

\* eye_program_runner.__init__: the first image, shown since construction;
\* prev_image_name does not exist until the first render assigns it
EyeInit ==
  /\ eye_now = 0
  /\ current_image_index = 0
  /\ last_image_change_time = 0
  /\ current_image_name = ""
  /\ prev_image_name = ""
  /\ eye_last = NoEyeOp

(* ------------------------- Config and config.yaml ----------------------- *)
\* a Config field that is None, a key config.yaml does not have
NoValue == -1

\* the fields of the Config dataclass; brightness_override is in hundredths
ConfigFields ==
  { "panel_width", "panel_height", "panel_count_x", "panel_count_y",
    "scan_mode", "brightness_override" }

\* Config(): every field None
Config ==
  [panel_width |-> NoValue, panel_height |-> NoValue,
   panel_count_x |-> NoValue, panel_count_y |-> NoValue,
   scan_mode |-> NoValue, brightness_override |-> NoValue]

\* the values Config.SetDefaults gives to fields that are None
default_values ==
  [panel_width |-> 64, panel_height |-> 32, panel_count_x |-> 2,
   panel_count_y |-> 2, scan_mode |-> 8, brightness_override |-> 100]

\* Config.SetDefaults()
SetDefaults(config) ==
  [f \in ConfigFields |->
     IF config[f] = NoValue THEN default_values[f] ELSE config[f]]

\* config.yaml does not exist
NoFile == [exists |-> FALSE, content |-> Config]

\* config.yaml with the mapping yaml.dump(vars(config)) writes
yaml_dump(config) == [exists |-> TRUE, content |-> config]

\* yaml.safe_load(file) followed by Config(**config_dict): an empty file or
\* an empty mapping is falsy and leaves config None, replaced by Config()
load_config(file) ==
  IF file.exists /\ file.content # Config THEN file.content ELSE Config

\* get_config(): the Config it returns for the file it finds
get_config(file) == SetDefaults(load_config(file))

\* get_config(): the file it leaves behind
get_config_file(file) == yaml_dump(get_config(file))

\* no web UI call has happened yet
NoConfigOp ==
  [op |-> "init", submitted |-> Config, returned |-> Config,
   message |-> "", saved |-> FALSE]

\* the Config the program obtained from get_config() at startup, given the
\* config.yaml it found
ConfigInit(startup_files) ==
  /\ \E file \in startup_files :
       /\ config_file = get_config_file(file)
       /\ webui_config = get_config(file)
  /\ config_last = NoConfigOp

(* ------------------------------- actions -------------------------------- *)
\* State after time_keeper(), program_manager(...) and program_scheduler(...)
\* have been constructed: the manager activated programs[0], then the
\* scheduler fixed the burn window and activated the workshop program.
Init ==
  /\ real_clock = 0
  /\ timescale = 1
  /\ last_real_time = 0
  /\ last_returned_time = 0
  /\ last_real_datetime = 0
  /\ last_returned_datetime = 0
  /\ programs \in Registries
  /\ active_program = workshop_runner
  /\ program_start_time = 0
  /\ last_program_switch_time = 0
  /\ last_screen_saver_index = 0
  /\ burn_start_time = BurnStartDelaySeconds
  /\ burn_end_time = BurnStartDelaySeconds + DefaultPlayDuration
  /\ result = NoResult
  /\ pc = "run"
  /\ last = NoOp("init")
  /\ idle_switches = 0
  /\ burn_activations = 0
  /\ base_return_time = NoTime
  /\ scale_changes = 0
  /\ ClockHistoryInit
  /\ MenuRendererInit
  /\ WorkshopRunnerInit
  /\ UserInputInit
  /\ EyeInit
  /\ ConfigInit({NoFile})

\* real time passes between two operations
Tick ==
  /\ \E d \in TickSteps :
       /\ time_value + d * timescale <= MaxVirtualTime
       /\ real_clock' = real_clock + d
  /\ last' = NoOp("tick")
  /\ UNCHANGED << clock_vars, manager_vars, scheduler_vars, result, pc, idle_switches, burn_activations, base_return_time, scale_changes,
                  clock_history, menu_vars, workshop_vars, input_vars, eye_vars, config_vars >>

\* time_keeper.set_timescale(factor) with a positive factor, from the
\* control panel's timescale slider
SetTimescale ==
  /\ scale_changes < MaxScaleChanges
  /\ scale_changes' = scale_changes + 1
  /\ \E factor \in 1..MaxTimescale :
       /\ factor # timescale
       /\ time
       /\ now
       /\ timescale' = factor
  /\ last' = NoOp("set_timescale")
  /\ UNCHANGED << real_clock, manager_vars, scheduler_vars, result, pc, idle_switches, burn_activations, base_return_time,
                  clock_history, menu_vars, workshop_vars, input_vars, eye_vars, config_vars >>

\* program_manager.run_program: one frame of the active program
RunProgram ==
  /\ pc = "run"
  /\ \E finished \in (IF active_program # None /\ ProgramOf(active_program).can_finish
                        THEN BOOLEAN ELSE {FALSE}) :
       /\ result' = run_program_result(finished)
       /\ IF run_program_reads_clock(finished)
            THEN time
            ELSE UNCHANGED << last_real_time, last_returned_time >>
       /\ last' = [NoOp("run_program") EXCEPT
                     !.render_finished = finished,
                     !.reason = result'.finish_reason,
                     !.finished = result'.finished_program_type # None,
                     !.play_duration = IF active_program = None THEN NoDuration
                                       ELSE ProgramOf(active_program).play_duration,
                     !.current_time = time_value,
                     !.prev_active = active_program,
                     !.prev_start_time = program_start_time]
  /\ pc' = "schedule"
  /\ UNCHANGED << real_clock, timescale, last_real_datetime, last_returned_datetime,
                  manager_vars, scheduler_vars, idle_switches, burn_activations, base_return_time, scale_changes,
                  clock_history, menu_vars, workshop_vars, input_vars, eye_vars, config_vars >>

\* the program type may_update_program hands to set_active_program under a
\* rule, None when the rule switches nothing
switch_target(rule) ==
  CASE rule \in {"no_active", "finished", "burn_exit"} -> InitialProgramType
    [] rule = "burn_enter" -> BurnProgramType
    [] rule = "idle" -> get_next_screensaver.type
    [] OTHER -> None

\* program_scheduler.may_update_program(result): what the call does to the
\* scheduler, the manager and the clock
may_update_program ==
  /\ pc = "schedule"
  /\ LET rule == ScheduleRule(result)
         next == get_next_screensaver
         target == switch_target(rule)
     IN
     /\ time
     /\ IF rule \in {"no_active", "finished"}
          THEN UNCHANGED << last_real_datetime, last_returned_datetime >>
          ELSE now
     /\ IF target # None
          THEN set_active_program(target)
          ELSE UNCHANGED << active_program, program_start_time >>
     /\ last_program_switch_time' =
          IF rule \in {"burn_enter", "burn_exit", "idle"}
            THEN time_value ELSE last_program_switch_time
     /\ last_screen_saver_index' =
          IF rule \in {"idle", "idle_empty"} THEN next.index ELSE last_screen_saver_index
     /\ idle_switches' = IF rule = "idle" THEN idle_switches + 1 ELSE idle_switches
     /\ burn_activations' =
          IF rule = "burn_enter" THEN burn_activations + 1 ELSE burn_activations
     /\ last' = [NoOp("may_update_program") EXCEPT
                   !.rule = rule,
                   !.finished = result.finished_program_type # None,
                   !.reason = result.finish_reason,
                   !.current_time = time_value,
                   !.now = now_value,
                   !.prev_active = active_program,
                   !.prev_start_time = program_start_time,
                   !.prev_switch_time = last_program_switch_time,
                   !.prev_index = last_screen_saver_index,
                   !.prev_burn_activations = burn_activations,
                   !.prev_return_time = base_return_time,
                   !.selected = IF rule = "idle" THEN next.type ELSE None]
  /\ pc' = "run"
  /\ UNCHANGED << real_clock, timescale, programs, burn_start_time, burn_end_time, result, scale_changes,
                  clock_history, menu_vars, workshop_vars, input_vars, eye_vars, config_vars >>

\* program_scheduler.may_update_program(result)
MayUpdateProgram ==
  /\ may_update_program
  /\ UNCHANGED base_return_time

Next == Tick \/ SetTimescale \/ RunProgram \/ MayUpdateProgram

(* ------------------- program_manager called directly -------------------- *)
\* the abstract base class: a program type that is never registered
program_runner == "program_runner"

\* program types a caller may pass to set_active_program
ProgramTypeArgs ==
  { eye_program_runner, workshop_runner, gnome_message_runner, teeth_program_runner,
    care_bear_program_runner, burn_program_runner, program_runner }

\* program_manager.set_active_program(program_type) called from outside
SetActiveProgramCall ==
  /\ \E t \in ProgramTypeArgs :
       /\ set_active_program(t)
       /\ IF get_program_by_type(t) # 0
            THEN time
            ELSE UNCHANGED << last_real_time, last_returned_time >>
       /\ last' = [NoOp("set_active_program") EXCEPT
                     !.arg = t,
                     !.returned = set_active_program_result(t).returned,
                     !.current_time = time_value,
                     !.prev_active = active_program,
                     !.prev_start_time = program_start_time]
  /\ UNCHANGED << real_clock, timescale, last_real_datetime, last_returned_datetime,
                  programs, scheduler_vars, result, pc, idle_switches, burn_activations, base_return_time, scale_changes,
                  clock_history, menu_vars, workshop_vars, input_vars, eye_vars, config_vars >>

\* real time passes between two program_manager calls
ManagerTick == real_clock < MaxClockTime /\ Tick

NextManager == ManagerTick \/ SetTimescale \/ SetActiveProgramCall

SpecManager == Init /\ [][NextManager]_vars

Spec == Init /\ [][Next]_vars

(* ------------------------------ frame loop ------------------------------ *)
\* The frame loop: a pause, then run_program, then may_update_program, for
\* ever, at the timescale of the construction.

\* the pause between two frames
FrameTick ==
  /\ pc = "run"
  /\ last.op # "tick"
  /\ \E d \in FrameSteps :
       /\ time_value + d * timescale <= MaxVirtualTime
       /\ real_clock' = real_clock + d
  /\ last' = NoOp("tick")
  /\ UNCHANGED << clock_vars, manager_vars, scheduler_vars, result, pc, idle_switches,
                  burn_activations, base_return_time, scale_changes,
                  clock_history, menu_vars, workshop_vars, input_vars, eye_vars, config_vars >>

\* program_manager.run_program, once per frame
FrameRunProgram ==
  /\ last.op = "tick"
  /\ RunProgram

\* program_scheduler.may_update_program(result), once per frame; it also
\* notes when a finished screensaver gives way to the initial program
FrameMayUpdateProgram ==
  /\ may_update_program
  /\ LET rule == ScheduleRule(result)
         target == switch_target(rule)
     IN base_return_time' =
          IF target = None THEN base_return_time
          ELSE IF rule = "finished" /\ ProgramOf(active_program).is_screen_saver
            THEN time_value
          ELSE IF rule = "finished" /\ active_program = target
            THEN base_return_time
          ELSE NoTime

NextFrames == FrameTick \/ FrameRunProgram \/ FrameMayUpdateProgram

\* the loop never stops: some step of it is taken whenever one is possible
SpecFrames == Init /\ [][NextFrames]_vars /\ WF_vars(NextFrames)

\* the pause between two frames, in the first MaxOutsideTime seconds
ManagerFrameTick == real_clock < MaxOutsideTime /\ FrameTick

\* the frame loop with set_active_program also called from outside it, at any
\* point of a frame
NextManagerFrames ==
  ManagerFrameTick \/ FrameRunProgram \/ FrameMayUpdateProgram \/ SetActiveProgramCall

SpecManagerFrames == Init /\ [][NextManagerFrames]_vars

(* ------------------------- scheduler properties ------------------------- *)
\* C1: a scheduler step whose frame reported no finished program, taken
\* inside the burn window while another program is active, makes the burn
\* program active and selects no screensaver, idle threshold passed or not.
C1_OverrideBeatsIdle ==
  ( /\ last.op = "may_update_program"
    /\ ~last.finished
    /\ burn_start_time <= last.now /\ last.now < burn_end_time
    /\ last.prev_active # burn_program_runner )
  => /\ active_program = burn_program_runner
     /\ last.selected = None
     /\ last_screen_saver_index = last.prev_index

\* the C1 case with the idle threshold passed
C1_Witness ==
  /\ last.op = "may_update_program"
  /\ ~last.finished
  /\ burn_start_time <= last.now /\ last.now < burn_end_time
  /\ last.prev_active = workshop_runner
  /\ last.current_time - last.prev_switch_time >= DISPLAY_SCREENSAVER_AFTER_SECONDS
  /\ active_program = burn_program_runner

\* C2: a scheduler step whose frame reported a finished program ends with
\* the workshop program active, whichever program finished, burn window or
\* not, idle threshold passed or not.
C2_FinishedReturnsToWorkshop ==
  (last.op = "may_update_program" /\ last.finished)
  => active_program = workshop_runner

\* a screensaver finished inside the burn window with the idle threshold passed
C2_Witness ==
  /\ last.op = "may_update_program"
  /\ last.finished
  /\ last.prev_active \notin {workshop_runner, burn_program_runner}
  /\ burn_start_time <= last.current_time /\ last.current_time < burn_end_time
  /\ last.current_time - last.prev_switch_time >= DISPLAY_SCREENSAVER_AFTER_SECONDS
  /\ active_program = workshop_runner

\* C3: the scheduler step that handles a finished program sets
\* last_program_switch_time to the current virtual time of that step.
C3_FinishedResetsSwitchTime ==
  (last.op = "may_update_program" /\ last.finished)
  => last_program_switch_time = last.current_time

\* C4: a scheduler step activates a screensaver only when no program
\* finished, the burn window is not active, the active program is not a
\* screensaver and the idle threshold has passed; the step records the
\* switch time.
C4_ScreensaverOnlyOnIdle ==
  ( /\ last.op = "may_update_program"
    /\ active_program # last.prev_active
    /\ ProgramOf(active_program).is_screen_saver )
  => /\ ~last.finished
     /\ ~(burn_start_time <= last.now /\ last.now < burn_end_time)
     /\ ~ProgramOf(last.prev_active).is_screen_saver
     /\ last.current_time - last.prev_switch_time >= DISPLAY_SCREENSAVER_AFTER_SECONDS
     /\ last_program_switch_time = last.current_time

\* a screensaver was activated exactly at the idle threshold
C4_Witness ==
  /\ last.op = "may_update_program"
  /\ active_program # last.prev_active
  /\ ProgramOf(active_program).is_screen_saver
  /\ last.current_time - last.prev_switch_time = DISPLAY_SCREENSAVER_AFTER_SECONDS
  /\ last_program_switch_time = last.current_time

\* C5: the k-th idle-timeout switch (k = 0, 1, ...) selects screensaver
\* number k mod n of the registration-ordered screensaver list.
C5_RoundRobinOrder ==
  (last.op = "may_update_program" /\ last.selected # None)
  => LET screensavers == get_screensaver_programs IN
     /\ Len(screensavers) > 0
     /\ last.selected = screensavers[((idle_switches - 1) % Len(screensavers)) + 1].type
     /\ active_program = last.selected

\* three screensavers, fifth idle timeout: slot 1 is selected (0,1,2,0,1)
C5_Witness ==
  /\ last.op = "may_update_program"
  /\ Len(get_screensaver_programs) = 3
  /\ idle_switches = 5
  /\ last.selected = get_screensaver_programs[2].type
  /\ last.prev_index = 1

\* C6: every _get_next_screensaver call on a non-empty list advances the
\* index by one modulo the list length, the index stays inside the list,
\* and a call on an empty list leaves the index unchanged.
C6_IndexAdvancesByOne ==
  LET n == Len(get_screensaver_programs) IN
  /\ n > 0 => last_screen_saver_index \in 0..(n - 1)
  /\ (last.op = "may_update_program" /\ last.rule \in {"idle", "idle_empty"})
     => last_screen_saver_index =
          IF n > 0 THEN (last.prev_index + 1) % n ELSE last.prev_index

\* the index wrapped around the end of a three-element list
C6_Witness ==
  /\ last.op = "may_update_program"
  /\ last.rule = "idle"
  /\ Len(get_screensaver_programs) = 3
  /\ last.prev_index = 2
  /\ last_screen_saver_index = 0

\* the call on an empty screensaver list
C6_WitnessEmpty ==
  /\ last.op = "may_update_program"
  /\ last.rule = "idle_empty"
  /\ Len(get_screensaver_programs) = 0
  /\ last.selected = None

\* C7: after a scheduler step taken outside the burn window the burn
\* program is not active; if it was active, the step switched to the
\* workshop program and recorded the switch time.
C7_BurnLeavesOutsideWindow ==
  ( /\ last.op = "may_update_program"
    /\ ~(burn_start_time <= last.now /\ last.now < burn_end_time) )
  => /\ active_program # burn_program_runner
     /\ last.prev_active = burn_program_runner
        => /\ active_program = workshop_runner
           /\ last_program_switch_time = last.current_time

\* C8: a scheduler step taken while a screensaver is active leaves it
\* active, returns to the workshop program (the frame reported a finish)
\* or enters the burn program (window active); never another screensaver.
C8_NoScreensaverToScreensaver ==
  ( /\ last.op = "may_update_program"
    /\ ProgramOf(last.prev_active).is_screen_saver )
  => \/ active_program = last.prev_active /\ ~last.finished
     \/ active_program = workshop_runner /\ last.finished
     \/ /\ active_program = burn_program_runner
        /\ ~last.finished
        /\ burn_start_time <= last.now /\ last.now < burn_end_time

\* a running screensaver past the idle threshold was left active
C8_Witness ==
  /\ last.op = "may_update_program"
  /\ ProgramOf(last.prev_active).is_screen_saver
  /\ last.current_time - last.prev_switch_time >= DISPLAY_SCREENSAVER_AFTER_SECONDS
  /\ Len(get_screensaver_programs) > 1
  /\ active_program = last.prev_active

(* -------------------------- run_program properties ---------------------- *)
\* C9: when render did not report finished, run_program reports
\* DURATION_EXPIRED exactly when the play duration is set and
\* virtual seconds - program_start_time >= play duration, and no end
\* reason otherwise.
C9_DurationExpiry ==
  ( /\ last.op = "run_program"
    /\ last.prev_active # None
    /\ ~last.render_finished )
  => IF last.play_duration # NoDuration
        /\ last.current_time - last.prev_start_time >= last.play_duration
       THEN result = [finished_program_type |-> last.prev_active,
                      finish_reason |-> DURATION_EXPIRED]
       ELSE result = NoResult

\* the frame exactly at the play duration reported DURATION_EXPIRED
C9_Witness ==
  /\ last.op = "run_program"
  /\ ~last.render_finished
  /\ last.play_duration # NoDuration
  /\ last.current_time - last.prev_start_time = last.play_duration
  /\ result.finish_reason = DURATION_EXPIRED

\* a program without play duration ran past every duration with no end reason
C9_WitnessUnset ==
  /\ last.op = "run_program"
  /\ last.play_duration = NoDuration
  /\ last.current_time - last.prev_start_time > GnomePlayDuration
  /\ result = NoResult

\* C10: a frame whose render returned finished = True reports
\* SELF_TERMINATED, never DURATION_EXPIRED, whatever the elapsed time.
C10_SelfTerminationFirst ==
  (last.op = "run_program" /\ last.render_finished)
  => result = [finished_program_type |-> last.prev_active,
               finish_reason |-> SELF_TERMINATED]

\* render finished on a frame where the play duration had expired as well
C10_Witness ==
  /\ last.op = "run_program"
  /\ last.render_finished
  /\ last.play_duration # NoDuration
  /\ last.current_time - last.prev_start_time >= last.play_duration
  /\ result.finish_reason = SELF_TERMINATED

(* ------------------------ time_keeper called directly ------------------- *)
\* the five fields of a time_keeper
ClockState ==
  << timescale, last_real_time, last_returned_time,
     last_real_datetime, last_returned_datetime >>

\* mutant: the new factor is installed without reading the clocks first
set_timescale_state_no_flush(factor) ==
  IF factor <= 0
    THEN [raised |-> TRUE, state |-> ClockState]
    ELSE [raised |-> FALSE,
          state |-> << factor, last_real_time, last_returned_time,
                       last_real_datetime, last_returned_datetime >>]

\* mutant: the clocks are read before the factor is validated
set_timescale_state_flush_first(factor) ==
  [raised |-> factor <= 0,
   state |-> << IF factor <= 0 THEN timescale ELSE factor,
                real_clock, time_value, real_clock, now_value >>]

\* time_keeper.set_timescale(factor): whether it raises ValueError and the
\* clock state it leaves behind (lines 30-37)
set_timescale_state(factor) ==
  IF factor <= 0
    THEN [raised |-> TRUE, state |-> ClockState]
    ELSE [raised |-> FALSE,
          state |-> << factor, real_clock, time_value, real_clock, now_value >>]

\* time_keeper(initial_timescale) with the rest of the system idle, started
\* with one of the given config.yaml files on disk
InitWith(initial_timescales, startup_files) ==
  /\ real_clock = 0
  /\ timescale \in initial_timescales
  /\ last_real_time = 0
  /\ last_returned_time = 0
  /\ last_real_datetime = 0
  /\ last_returned_datetime = 0
  /\ programs = programs_to_add
  /\ active_program = workshop_runner
  /\ program_start_time = 0
  /\ last_program_switch_time = 0
  /\ last_screen_saver_index = 0
  /\ burn_start_time = BurnStartDelaySeconds
  /\ burn_end_time = BurnStartDelaySeconds + DefaultPlayDuration
  /\ result = NoResult
  /\ pc = "run"
  /\ last = NoOp("init")
  /\ idle_switches = 0
  /\ burn_activations = 0
  /\ base_return_time = NoTime
  /\ scale_changes = 0
  /\ ClockHistoryInit
  /\ MenuRendererInit
  /\ WorkshopRunnerInit
  /\ UserInputInit
  /\ EyeInit
  /\ ConfigInit(startup_files)

\* time_keeper(initial_timescale) with the rest of the system idle
InitClockWith(initial_timescales) == InitWith(initial_timescales, {NoFile})

\* a clock constructed with a positive initial_timescale
InitClock == InitClockWith(1..MaxTimescale)

\* a clock constructed with any initial_timescale
InitClockAny == InitClockWith((-1)..MaxTimescale)

not_clock_vars ==
  << manager_vars, scheduler_vars, frame_vars, menu_vars, workshop_vars,
     input_vars, eye_vars, config_vars >>

\* real time passes between two time_keeper calls
ClockTick ==
  /\ \E d \in TickSteps :
       /\ real_clock + d <= MaxClockTime
       /\ real_clock' = real_clock + d
       /\ ideal_time' = ideal_time + d * timescale
  /\ clock_last' = [clock_last EXCEPT !.op = "tick", !.prev_op = clock_last.op]
  /\ UNCHANGED << clock_vars, not_clock_vars >>

\* time_keeper.time()
TimeRead ==
  /\ time
  /\ clock_last' = [clock_last EXCEPT
                      !.op = "time",
                      !.prev_op = clock_last.op,
                      !.returned = time_value,
                      !.prev_returned = clock_last.returned,
                      !.prev_state = ClockState]
  /\ UNCHANGED << real_clock, timescale, last_real_datetime, last_returned_datetime,
                  ideal_time, not_clock_vars >>

\* time_keeper.now()
NowRead ==
  /\ now
  /\ clock_last' = [clock_last EXCEPT
                      !.op = "now",
                      !.prev_op = clock_last.op,
                      !.now_returned = now_value,
                      !.prev_state = ClockState]
  /\ UNCHANGED << real_clock, timescale, last_real_time, last_returned_time,
                  ideal_time, not_clock_vars >>

\* time_keeper.set_timescale(factor), any factor
SetTimescaleCall ==
  /\ \E factor \in (-1)..MaxTimescale :
       /\ factor # timescale
       /\ factor > 0 => scale_changes < MaxScaleChanges
       /\ scale_changes' = IF factor > 0 THEN scale_changes + 1 ELSE scale_changes
       /\ timescale' = set_timescale_state(factor).state[1]
       /\ last_real_time' = set_timescale_state(factor).state[2]
       /\ last_returned_time' = set_timescale_state(factor).state[3]
       /\ last_real_datetime' = set_timescale_state(factor).state[4]
       /\ last_returned_datetime' = set_timescale_state(factor).state[5]
       /\ clock_last' = [clock_last EXCEPT
                           !.op = "set_timescale",
                           !.prev_op = clock_last.op,
                           !.factor = factor,
                           !.raised = set_timescale_state(factor).raised,
                           !.returned = IF factor <= 0 THEN clock_last.returned
                                        ELSE time_value,
                           !.prev_returned = clock_last.returned,
                           !.prev_state = ClockState]
  /\ UNCHANGED << real_clock, ideal_time, manager_vars, scheduler_vars, result, pc,
                  last, idle_switches, burn_activations, base_return_time, menu_vars, workshop_vars, input_vars, eye_vars, config_vars >>

NextClock == ClockTick \/ TimeRead \/ NowRead \/ SetTimescaleCall

SpecClock == InitClock /\ [][NextClock]_vars

SpecClockAny == InitClockAny /\ [][NextClock]_vars

(* ------------------------------ MenuRenderer ---------------------------- *)
\* Times are in tenths of a second, scroll distances in thousandths of a
\* pixel; a menu item is represented by the pixel width of its name.
TimeUnitsPerSecond == 10
PixelScale == 1000

\* MenuRendererConfig defaults
scroll_speed == 10
min_current_time == 6 * TimeUnitsPerSecond

\* MenuRenderer.available_name_width and MenuRenderer.max_items
available_name_width == 100
max_items == 2

\* name widths: shorter than, equal to, slightly wider and much wider than
\* the available width
ShortName == available_name_width - 10
FittingName == available_name_width
WideName == available_name_width + 4
VeryWideName == available_name_width + 40

\* the item lists on offer to set_menu_items: the first n items of a few
\* agendas, n up to MaxMenuLen
Agendas ==
  { << VeryWideName, WideName, FittingName, ShortName >>,
    << WideName, VeryWideName, ShortName, FittingName >>,
    << FittingName, ShortName, VeryWideName, WideName >> }

MenuItemLists ==
  { SubSeq(agenda, 1, n) : agenda \in Agendas,
                           n \in 0..(IF MaxMenuLen <= 4 THEN MaxMenuLen ELSE 4) }

\* tenths of a second that may pass between two MenuRenderer calls
MenuTickSteps == {10}

Min(a, b) == IF a <= b THEN a ELSE b
Max(a, b) == IF a >= b THEN a ELSE b

\* mutant: a name exactly as wide as the space also scrolls
needs_scrolling_inclusive(name_width) == name_width >= available_name_width

\* render_name: needs_scrolling
needs_scrolling(name_width) == name_width > available_name_width

\* render_name: max_scroll
max_scroll(name_width) == (name_width - available_name_width + 20) * PixelScale

\* render_name: time_to_max_scroll
time_to_max_scroll(name_width) ==
  ((name_width - available_name_width + 20) * TimeUnitsPerSecond) \div scroll_speed

\* render_name: acceleration_time = min(time_to_max_scroll * 0.25, 1.0)
acceleration_time(name_width) ==
  Min(time_to_max_scroll(name_width) \div 4, TimeUnitsPerSecond)

\* mutant: the ease-in distance is not averaged over the rising speed
scroll_distance_full_speed(name_width, elapsed_time) ==
  IF elapsed_time <= acceleration_time(name_width)
    THEN (scroll_speed * PixelScale * elapsed_time * elapsed_time)
           \div (acceleration_time(name_width) * TimeUnitsPerSecond)
    ELSE (acceleration_time(name_width) * scroll_speed * PixelScale)
           \div (2 * TimeUnitsPerSecond)
         + ((elapsed_time - acceleration_time(name_width)) * scroll_speed * PixelScale)
             \div TimeUnitsPerSecond

\* render_name: distance covered after elapsed_time
scroll_distance(name_width, elapsed_time) ==
  IF elapsed_time <= acceleration_time(name_width)
    THEN (scroll_speed * PixelScale * elapsed_time * elapsed_time)
           \div (2 * acceleration_time(name_width) * TimeUnitsPerSecond)
    ELSE (acceleration_time(name_width) * scroll_speed * PixelScale)
           \div (2 * TimeUnitsPerSecond)
         + ((elapsed_time - acceleration_time(name_width)) * scroll_speed * PixelScale)
             \div TimeUnitsPerSecond

\* mutant: the minimum display time counts as elapsed only once exceeded
min_display_time_elapsed_strict(item_display_time) ==
  ~(item_display_time <= min_current_time)

\* render_name: the test `item_display_time < min_current_time`, negated
min_display_time_elapsed(item_display_time) ==
  ~(item_display_time < min_current_time)

\* mutant: the backward position is mirrored without being clamped
clamp_scroll_position_forward_only(direction, scroll_position, max) ==
  IF direction = 1
    THEN Max(0, Min(scroll_position, max))
    ELSE max - scroll_position

\* render_name: the final clamp on scroll_position
clamp_scroll_position(direction, scroll_position, max) ==
  IF direction = 1
    THEN Max(0, Min(scroll_position, max))
    ELSE Max(0, Min(max - scroll_position, max))

\* render_name on a row that is active and needs scrolling, after the scroll
\* state of the row exists: the scroll position and the state it leaves
scroll_step(starts, directions, name_width, item_index) ==
  LET elapsed_time == menu_now - starts[item_index]
      max == max_scroll(name_width)
      direction == directions[item_index]
      item_display_time == menu_now - last_active_change_time
      distance == scroll_distance(name_width, elapsed_time)
      excess == distance - max
      restart(d, position) ==
        [position |-> position,
         starts |-> (item_index :> menu_now) @@ starts,
         directions |-> (item_index :> d) @@ directions]
      keep(position) ==
        [position |-> position, starts |-> starts, directions |-> directions]
      step ==
        IF elapsed_time <= acceleration_time(name_width)
          THEN keep(direction * distance)
          ELSE IF distance >= max
            THEN IF ~min_display_time_elapsed(item_display_time)
                   THEN IF direction = 1
                          THEN restart(-1, max)
                          ELSE IF excess >= max
                                 THEN restart(1, 0)
                                 ELSE keep(max - excess)
                   ELSE keep(max)
            ELSE keep(direction * distance)
  IN [offset |-> clamp_scroll_position(direction, step.position, max),
      starts |-> step.starts,
      directions |-> step.directions]

\* MenuRenderer.render_name: the offset the name is drawn at and the scroll
\* state afterwards
render_name(starts, directions, name_width, is_active, item_index) ==
  IF is_active /\ needs_scrolling(name_width)
    THEN IF item_index \in DOMAIN starts
           THEN scroll_step(starts, directions, name_width, item_index)
           ELSE scroll_step((item_index :> menu_now) @@ starts,
                            (item_index :> 1) @@ directions,
                            name_width, item_index)
    ELSE [offset |-> 0, starts |-> starts, directions |-> directions]

\* mutant: every row is rendered as the active one
row_is_active_always(i) == TRUE

\* MenuRenderer.render: is_active = (i == self.active_item_index)
row_is_active(i) == i = active_item_index

\* MenuRenderer.render: the loop over menu_items[:max_items], rows i..n-1
\* (row i is menu_items[i + 1] of the sequence)
RECURSIVE render_rows(_, _, _)
render_rows(i, n, acc) ==
  IF i >= n
    THEN acc
    ELSE LET row == render_name(acc.starts, acc.directions, menu_items[i + 1],
                                row_is_active(i), i)
         IN render_rows(i + 1, n,
                        [drawn |-> Append(acc.drawn, row.offset),
                         starts |-> row.starts,
                         directions |-> row.directions])

\* MenuRenderer.render: offsets drawn and scroll state after one frame
render ==
  render_rows(0, Min(Len(menu_items), max_items),
              [drawn |-> << >>, starts |-> scroll_start_times,
               directions |-> scroll_directions])

\* mutant: the reset does not depend on the new list being non-empty
set_menu_items_result_any_list(items) ==
  IF active_item_index >= Len(items)
    THEN [active |-> 0, change |-> menu_now]
    ELSE [active |-> active_item_index, change |-> last_active_change_time]

\* MenuRenderer.set_menu_items: active index and change time afterwards
set_menu_items_result(items) ==
  IF active_item_index >= Len(items) /\ Len(items) > 0
    THEN [active |-> 0, change |-> menu_now]
    ELSE [active |-> active_item_index, change |-> last_active_change_time]

\* the values a MenuRenderer call finds
MenuOp(name, argument) ==
  [op |-> name, at |-> menu_now, arg |-> argument,
   prev_active |-> active_item_index,
   prev_change |-> last_active_change_time,
   prev_starts |-> scroll_start_times,
   prev_directions |-> scroll_directions]

not_menu_vars ==
  << real_clock, clock_vars, manager_vars, scheduler_vars, frame_vars,
     clock_history, workshop_vars, input_vars, eye_vars, config_vars >>

\* time passes between two MenuRenderer calls
MenuTick ==
  /\ \E d \in MenuTickSteps :
       /\ menu_now + d <= MaxMenuTime
       /\ menu_now' = menu_now + d
  /\ menu_last' = NoMenuOp("tick")
  /\ UNCHANGED << menu_items, active_item_index, last_active_change_time,
                  scroll_start_times, scroll_directions, drawn, menu_calls,
                  not_menu_vars >>

\* MenuRenderer.set_menu_items(items)
SetMenuItems ==
  /\ menu_calls < MaxMenuCalls
  /\ menu_calls' = menu_calls + 1
  /\ \E items \in MenuItemLists :
       /\ items # menu_items
       /\ menu_items' = items
       /\ active_item_index' = set_menu_items_result(items).active
       /\ last_active_change_time' = set_menu_items_result(items).change
       /\ menu_last' = MenuOp("set_menu_items", Len(items))
  /\ UNCHANGED << menu_now, scroll_start_times, scroll_directions, drawn,
                  not_menu_vars >>

\* mutant: the index one past the last item is accepted
index_in_range_inclusive(index) == 0 <= index /\ index <= Len(menu_items)

\* MenuRenderer.set_active_item: 0 <= index < len(self.menu_items)
index_in_range(index) == 0 <= index /\ index < Len(menu_items)

\* MenuRenderer.set_active_item(index)
SetActiveItem ==
  /\ menu_calls < MaxMenuCalls
  /\ menu_calls' = menu_calls + 1
  /\ \E index \in (-1)..MaxMenuLen :
       /\ IF index_in_range(index)
            THEN /\ active_item_index' = index
                 /\ last_active_change_time' = menu_now
                 /\ scroll_start_times' = (index :> menu_now) @@ scroll_start_times
                 /\ scroll_directions' = (index :> 1) @@ scroll_directions
            ELSE UNCHANGED << active_item_index, last_active_change_time,
                              scroll_start_times, scroll_directions >>
       /\ menu_last' = MenuOp("set_active_item", index)
  /\ UNCHANGED << menu_now, menu_items, drawn, not_menu_vars >>

\* MenuRenderer.render(canvas): one frame
Render ==
  /\ drawn' = render.drawn
  /\ scroll_start_times' = render.starts
  /\ scroll_directions' = render.directions
  /\ menu_last' = MenuOp("render", 0)
  /\ UNCHANGED << menu_now, menu_items, active_item_index,
                  last_active_change_time, menu_calls, not_menu_vars >>

NextMenu == MenuTick \/ SetMenuItems \/ SetActiveItem \/ Render

SpecMenu == InitClockWith({1}) /\ [][NextMenu]_vars

(* ------------------------- scrolling frame by frame --------------------- *)
\* tenths of a second between two frames
ScrollTickSteps == {1, 2}

\* time passes between two frames; the record of the last call is kept
ScrollTick ==
  /\ \E d \in ScrollTickSteps :
       /\ menu_now + d <= MaxScrollTime
       /\ menu_now' = menu_now + d
  /\ UNCHANGED << menu_items, active_item_index, last_active_change_time,
                  scroll_start_times, scroll_directions, drawn, menu_last,
                  menu_calls, not_menu_vars >>

NextScroll == ScrollTick \/ SetMenuItems \/ Render

\* a MenuRenderer that is given its items and then rendered every frame
SpecScroll == InitClockWith({1}) /\ [][NextScroll]_vars

(* ----------------------------- workshop_runner -------------------------- *)
\* Times are in seconds, scroll distances in thousandths of a pixel; a
\* workshop is represented by the pixel width of its title.

\* the values program_manager passes to workshop_runner(...)
ws_scroll_speed == 5
ws_min_current_time == 6
ws_max_current_time == 12

\* workshop_runner.max_workshops
max_workshops == 2

\* a title just wide enough to need scrolling
BarelyWideName == available_name_width + 1

\* the lists workshop_loader may leave in displayed_workshops: the first n
\* workshops of a few agendas, n up to max_workshops
WorkshopAgendas ==
  { << WideName, FittingName >>,
    << BarelyWideName, WideName >>,
    << FittingName, BarelyWideName >>,
    << ShortName, FittingName >> }

WorkshopLists ==
  { SubSeq(agenda, 1, n) : agenda \in WorkshopAgendas, n \in 0..max_workshops }

\* the fields of the workshop_runner
ws_self ==
  [displayed |-> displayed_workshops,
   index |-> current_location_index,
   change |-> last_location_change_time,
   update |-> last_workshop_update_time,
   saver |-> screen_saver_fn,
   starts |-> ws_scroll_start_times,
   directions |-> ws_scroll_directions]

\* workshop_runner.may_update_workshops, `loaded` being the list that the
\* filtering and filling leave in displayed_workshops
may_update_workshops(self, loaded) ==
  IF ws_now - self.update < workshop_update_interval
    THEN self
    ELSE [self EXCEPT
            !.update = ws_now,
            !.displayed = loaded,
            !.index = IF self.index >= Len(loaded) /\ Len(loaded) # 0 THEN 0 ELSE @,
            !.change = IF self.index >= Len(loaded) /\ Len(loaded) # 0 THEN ws_now ELSE @,
            !.saver = (Len(loaded) = 0)]

\* mutant: the maximum display time must be exceeded
max_display_time_reached_strict(workshop_display_time) ==
  workshop_display_time > ws_max_current_time

\* update_location_index: workshop_display_time >= self.max_current_time
max_display_time_reached(workshop_display_time) ==
  workshop_display_time >= ws_max_current_time

\* dict.pop(key, None)
Pop(dict, key) == [k \in (DOMAIN dict) \ {key} |-> dict[k]]

\* update_location_index: should_switch
should_switch(self) ==
  IF self.displayed[self.index + 1] > available_name_width
    THEN max_display_time_reached(ws_now - self.change)
    ELSE ws_now - self.change >= location_display_time

\* workshop_runner.update_location_index
update_location_index(self) ==
  IF Len(self.displayed) = 0
    THEN self
    ELSE LET needs == self.displayed[self.index + 1] > available_name_width
             cleared ==
               IF needs /\ should_switch(self)
                 THEN [self EXCEPT !.starts = Pop(@, self.index),
                                   !.directions = Pop(@, self.index)]
                 ELSE self
             new_index == (self.index + 1) % Len(self.displayed)
         IN IF should_switch(self)
              THEN [cleared EXCEPT
                      !.index = new_index,
                      !.change = ws_now,
                      !.starts = (new_index :> ws_now) @@ cleared.starts,
                      !.directions = (new_index :> 1) @@ cleared.directions]
              ELSE cleared

\* render_workshop_name: max_scroll
ws_max_scroll(name_width) == (name_width - available_name_width + 20) * PixelScale

\* render_workshop_name: acceleration_time = min(time_to_max_scroll * 0.25, 1.0);
\* max_scroll is above 20 px and the speed is 5 px/s, so this is 1 second
ws_acceleration_time(name_width) ==
  Min((name_width - available_name_width + 20) \div (4 * ws_scroll_speed), 1)

\* render_workshop_name: distance covered after elapsed_time
ws_scroll_distance(name_width, elapsed_time) ==
  IF elapsed_time <= ws_acceleration_time(name_width)
    THEN (ws_scroll_speed * PixelScale * elapsed_time * elapsed_time)
           \div (2 * ws_acceleration_time(name_width))
    ELSE (ws_acceleration_time(name_width) * ws_scroll_speed * PixelScale) \div 2
         + (elapsed_time - ws_acceleration_time(name_width))
             * ws_scroll_speed * PixelScale

\* render_workshop_name on the current row when it needs scrolling, after the
\* scroll state of the row exists
ws_scroll_step(self, name_width, workshop_index) ==
  LET elapsed_time == ws_now - self.starts[workshop_index]
      max == ws_max_scroll(name_width)
      direction == self.directions[workshop_index]
      workshop_display_time == ws_now - self.change
      distance == ws_scroll_distance(name_width, elapsed_time)
      excess == distance - max
      restart(d, position) ==
        [position |-> position,
         self |-> [self EXCEPT
                     !.starts = (workshop_index :> ws_now) @@ self.starts,
                     !.directions = (workshop_index :> d) @@ self.directions]]
      keep(position) == [position |-> position, self |-> self]
      step ==
        IF elapsed_time <= ws_acceleration_time(name_width)
          THEN keep(direction * distance)
          ELSE IF distance >= max
            THEN IF workshop_display_time < ws_min_current_time
                   THEN IF direction = 1
                          THEN restart(-1, max)
                          ELSE IF excess >= max
                                 THEN restart(1, 0)
                                 ELSE keep(max - excess)
                   ELSE keep(max)
            ELSE keep(direction * distance)
  IN [offset |-> clamp_scroll_position(direction, step.position, max),
      self |-> step.self]

\* workshop_runner.render_workshop_name
render_workshop_name(self, name_width, is_current, workshop_index) ==
  IF is_current /\ name_width > available_name_width
    THEN IF workshop_index \in DOMAIN self.starts
           THEN ws_scroll_step(self, name_width, workshop_index)
           ELSE ws_scroll_step(
                  [self EXCEPT
                     !.starts = (workshop_index :> ws_now) @@ self.starts,
                     !.directions = (workshop_index :> 1) @@ self.directions],
                  name_width, workshop_index)
    ELSE [offset |-> 0, self |-> self]

\* workshop_runner.render: the loop over displayed_workshops[:max_workshops]
RECURSIVE render_workshops(_, _, _)
render_workshops(i, n, acc) ==
  IF i >= n
    THEN acc
    ELSE LET row == render_workshop_name(acc.self, acc.self.displayed[i + 1],
                                         i = acc.self.index, i)
         IN render_workshops(i + 1, n,
                             [drawn |-> Append(acc.drawn, row.offset),
                              self |-> row.self])

\* workshop_runner.render: may_update_workshops, update_location_index, then
\* the screen saver or the rows
workshop_render(loaded) ==
  LET updated == update_location_index(may_update_workshops(ws_self, loaded))
  IN IF updated.saver
       THEN [drawn |-> << >>, self |-> updated]
       ELSE render_workshops(0, Min(Len(updated.displayed), max_workshops),
                             [drawn |-> << >>, self |-> updated])

not_workshop_vars ==
  << real_clock, clock_vars, manager_vars, scheduler_vars, frame_vars,
     clock_history, menu_vars, input_vars, eye_vars, config_vars >>

\* time passes between two frames of the workshop_runner
WorkshopTick ==
  /\ ws_now < workshop_update_interval + MaxWorkshopTime
  /\ ws_now' = ws_now + 1
  /\ ws_last' = NoWorkshopOp("tick")
  /\ UNCHANGED << displayed_workshops, current_location_index,
                  last_location_change_time, last_workshop_update_time,
                  screen_saver_fn, ws_scroll_start_times, ws_scroll_directions,
                  ws_drawn, not_workshop_vars >>

\* workshop_runner.render(canvas): one frame, `loaded` being the list that
\* the filtering and filling leave in displayed_workshops
WorkshopRenderWith(loaded) ==
  /\   LET before == may_update_workshops(ws_self, loaded)
           frame == workshop_render(loaded)
       IN /\ displayed_workshops' = frame.self.displayed
          /\ current_location_index' = frame.self.index
          /\ last_location_change_time' = frame.self.change
          /\ last_workshop_update_time' = frame.self.update
          /\ screen_saver_fn' = frame.self.saver
          /\ ws_scroll_start_times' = frame.self.starts
          /\ ws_scroll_directions' = frame.self.directions
          /\ ws_drawn' = frame.drawn
          /\ ws_last' = [op |-> "render",
                         updated |-> before.update # last_workshop_update_time,
                         switched |-> update_location_index(before) # before,
                         prev_index |-> before.index,
                         prev_change |-> before.change,
                         prev_displayed |-> displayed_workshops,
                         prev_starts |-> before.starts,
                         prev_directions |-> before.directions]
  /\ UNCHANGED << ws_now, not_workshop_vars >>

\* workshop_runner.render(canvas): one frame
WorkshopRender == \E loaded \in WorkshopLists : WorkshopRenderWith(loaded)

NextWorkshop == WorkshopTick \/ WorkshopRender

SpecWorkshop == InitClockWith({1}) /\ [][NextWorkshop]_vars

\* The host clock moves on by a second: time.time() as workshop_runner
\* reads it (lines 161, 216, 356) and as time_keeper reads it are the same
\* clock, so both readings advance together.
HostTick ==
  /\ ws_now < workshop_update_interval + MaxWorkshopTime
  /\ ws_now' = ws_now + 1
  /\ real_clock' = real_clock + 1
  /\ ws_last' = NoWorkshopOp("tick")
  /\ UNCHANGED << displayed_workshops, current_location_index,
                  last_location_change_time, last_workshop_update_time,
                  screen_saver_fn, ws_scroll_start_times, ws_scroll_directions,
                  ws_drawn, clock_vars, manager_vars, scheduler_vars, frame_vars,
                  clock_history, menu_vars, input_vars, eye_vars, config_vars >>

NextWorkshopScaled == HostTick \/ WorkshopRender

\* a workshop_runner beside a time_keeper constructed with a timescale of
\* 1 or more
SpecWorkshopScaled == InitClock /\ [][NextWorkshopScaled]_vars

(* -------------------------------- UserInput ----------------------------- *)
\* A listener is a callback: `id` tells the callbacks apart (the order of
\* registration), `result` is the boolean it returns.
Listener(n, r) == [id |-> n, result |-> r]

registered == Len(up_listeners) + Len(down_listeners) + Len(click_listeners)

\* mutant: the listeners are walked in registration order
reversed_identity(listeners) == listeners

\* reversed(listeners)
reversed(listeners) ==
  [i \in 1..Len(listeners) |-> listeners[Len(listeners) + 1 - i]]

\* the loop `for listener in ...: if not listener(): break`, from position i:
\* the ids of the listeners called
RECURSIVE call_listeners(_, _)
call_listeners(listeners, i) ==
  IF i > Len(listeners)
    THEN << >>
    ELSE << listeners[i].id >>
         \o (IF listeners[i].result THEN call_listeners(listeners, i + 1) ELSE << >>)

\* UserInput._handle_up_event / _handle_down_event / _handle_click_event
handle_event(listeners) == call_listeners(reversed(listeners), 1)

not_input_vars ==
  << real_clock, clock_vars, manager_vars, scheduler_vars, frame_vars,
     clock_history, menu_vars, workshop_vars, eye_vars, config_vars >>

\* UserInput.registerUpListener(callback)
RegisterUpListener ==
  /\ registered < MaxListeners
  /\ \E r \in BOOLEAN :
       up_listeners' = Append(up_listeners, Listener(registered + 1, r))
  /\ input_last' = "register_up"
  /\ invoked' = << >>
  /\ UNCHANGED << down_listeners, click_listeners, not_input_vars >>

\* UserInput.registerDownListener(callback)
RegisterDownListener ==
  /\ registered < MaxListeners
  /\ \E r \in BOOLEAN :
       down_listeners' = Append(down_listeners, Listener(registered + 1, r))
  /\ input_last' = "register_down"
  /\ invoked' = << >>
  /\ UNCHANGED << up_listeners, click_listeners, not_input_vars >>

\* UserInput.registerClickListener(callback)
RegisterClickListener ==
  /\ registered < MaxListeners
  /\ \E r \in BOOLEAN :
       click_listeners' = Append(click_listeners, Listener(registered + 1, r))
  /\ input_last' = "register_click"
  /\ invoked' = << >>
  /\ UNCHANGED << up_listeners, down_listeners, not_input_vars >>

\* UserInput._handle_up_event()
HandleUpEvent ==
  /\ invoked' = handle_event(up_listeners)
  /\ input_last' = "up"
  /\ UNCHANGED << up_listeners, down_listeners, click_listeners, not_input_vars >>

\* UserInput._handle_down_event()
HandleDownEvent ==
  /\ invoked' = handle_event(down_listeners)
  /\ input_last' = "down"
  /\ UNCHANGED << up_listeners, down_listeners, click_listeners, not_input_vars >>

\* UserInput._handle_click_event()
HandleClickEvent ==
  /\ invoked' = handle_event(click_listeners)
  /\ input_last' = "click"
  /\ UNCHANGED << up_listeners, down_listeners, click_listeners, not_input_vars >>

NextInput ==
  \/ RegisterUpListener \/ RegisterDownListener \/ RegisterClickListener
  \/ HandleUpEvent \/ HandleDownEvent \/ HandleClickEvent

SpecInput == InitClockWith({1}) /\ [][NextInput]_vars

(* ------------------ workshop_runner: refreshing the list ---------------- *)
MaxRefreshTime == 36

\* the workshops of the day, by title width
WorkshopTitles == { ShortName, FittingName, BarelyWideName, WideName }

\* what get_upcoming_workshops() may return within future_time_limit: the
\* rest of an agenda, which can be longer than max_workshops
UpcomingLists ==
  { SubSeq(agenda, i, 3) :
      agenda \in { << WideName, FittingName, BarelyWideName >>,
                   << ShortName, WideName, FittingName >> },
      i \in 1..4 }

\* the workshops that may have started by the time of a refresh
StartedSets ==
  { {}, {WideName}, {FittingName}, {ShortName, WideName},
    {FittingName, BarelyWideName}, WorkshopTitles }

\* may_update_workshops: the displayed workshops that have not started yet
\* (lines 173-176)
remove_started(displayed, started) ==
  SelectSeq(displayed, LAMBDA w : w \notin started)

\* mutant: a slot is always taken to be free
slot_free_always(displayed) == Len(displayed) >= 0

\* may_update_workshops: len(self.displayed_workshops) < self.max_workshops
slot_free(displayed) == Len(displayed) < max_workshops

\* may_update_workshops: empty slots are filled with upcoming workshops that
\* are not displayed yet (lines 179-189)
RECURSIVE fill_slots(_, _)
fill_slots(displayed, upcoming) ==
  IF upcoming = << >>
    THEN displayed
    ELSE fill_slots(
           IF /\ \A i \in 1..Len(displayed) : displayed[i] # Head(upcoming)
              /\ slot_free(displayed)
             THEN Append(displayed, Head(upcoming))
             ELSE displayed,
           Tail(upcoming))

\* may_update_workshops: displayed_workshops after filtering and filling
refreshed(started, upcoming) ==
  fill_slots(remove_started(displayed_workshops, started), upcoming)

\* seconds between two frames: a row's display time, a whole update interval
RefreshTickSteps == { location_display_time + 1, workshop_update_interval }

\* time passes between two frames of the workshop_runner
RefreshTick ==
  /\ \E d \in RefreshTickSteps :
       /\ ws_now + d <= workshop_update_interval + MaxRefreshTime
       /\ ws_now' = ws_now + d
  /\ ws_last' = NoWorkshopOp("tick")
  /\ UNCHANGED << displayed_workshops, current_location_index,
                  last_location_change_time, last_workshop_update_time,
                  screen_saver_fn, ws_scroll_start_times, ws_scroll_directions,
                  ws_drawn, not_workshop_vars >>

\* workshop_runner.render(canvas): one frame, the list being refreshed from
\* what is displayed, what has started and what is coming up
RefreshRender ==
  \E started \in StartedSets, upcoming \in UpcomingLists :
    WorkshopRenderWith(refreshed(started, upcoming))

NextRefresh == RefreshTick \/ RefreshRender

SpecRefresh == InitClockWith({1}) /\ [][NextRefresh]_vars

(* --------------------------- eye_program_runner ------------------------- *)
MaxEyeTime == 6

not_eye_vars ==
  << real_clock, clock_vars, manager_vars, scheduler_vars, frame_vars,
     clock_history, menu_vars, workshop_vars, input_vars, config_vars >>

\* eye_program_runner.render: it is time to change the image (line 73)
image_change_due == eye_now - last_image_change_time >= image_display_time

\* eye_program_runner.render: the index of the image this frame shows
next_image_index ==
  IF image_change_due
    THEN (current_image_index + 1) % Len(image_names)
    ELSE current_image_index

\* eye_program_runner.render: the finished flag of this frame (lines 78, 101)
is_finished == current_image_name = "eyeClose"

\* the host clock advances between two frames, or while another program
\* is the active one
EyeTick ==
  /\ eye_now < MaxEyeTime
  /\ eye_now' = eye_now + 1
  /\ UNCHANGED << current_image_index, last_image_change_time,
                  current_image_name, prev_image_name, eye_last, not_eye_vars >>

\* eye_program_runner.render(canvas)
EyeRender ==
  /\ current_image_index' = next_image_index
  /\ last_image_change_time' =
       IF image_change_due THEN eye_now ELSE last_image_change_time
  /\ current_image_name' = image_names[next_image_index + 1]
  /\ prev_image_name' = IF is_finished THEN "" ELSE current_image_name
  /\ LET new_pass_now == image_change_due /\ next_image_index = 0
         new_pass == IF is_finished THEN new_pass_now
                     ELSE eye_last.new_pass \/ new_pass_now
     IN eye_last' =
          [op |-> "render",
           finished |-> is_finished,
           shown |-> image_names[next_image_index + 1],
           reported_before |-> eye_last.reported,
           close_again_before |-> eye_last.close_again,
           reported |-> eye_last.reported \/ is_finished,
           new_pass |-> new_pass,
           close_again |->
             IF is_finished THEN FALSE
             ELSE \/ eye_last.close_again
                  \/ new_pass /\ image_names[next_image_index + 1] = "eyeClose"]
  /\ UNCHANGED << eye_now, not_eye_vars >>

NextEye == EyeTick \/ EyeRender

SpecEye == InitClockWith({1}) /\ [][NextEye]_vars

(* ------------------------------ the web UI ------------------------------ *)
\* config.yaml as the program may find it at startup: missing, empty, with
\* some keys, with every key
StartupFiles ==
  { NoFile,
    yaml_dump(Config),
    yaml_dump([Config EXCEPT !.panel_width = 32, !.brightness_override = 50]),
    yaml_dump([panel_width |-> 32, panel_height |-> 16, panel_count_x |-> 1,
               panel_count_y |-> 1, scan_mode |-> 16,
               brightness_override |-> 50]) }

\* values the configuration form can submit (gr.Number with minimum 1,
\* gr.Slider from 0.0 to 1.0 in steps of 0.01)
SubmittedValues ==
  [panel_width : {32, 64}, panel_height : {16, 32}, panel_count_x : {1, 2},
   panel_count_y : {2}, scan_mode : {8, 16}, brightness_override : {0, 100}]

not_config_vars ==
  << real_clock, clock_vars, manager_vars, scheduler_vars, frame_vars,
     clock_history, menu_vars, workshop_vars, input_vars, eye_vars >>

\* WebUI._save_config(panel_width, ..., brightness_override)
SaveConfig ==
  /\ \E values \in SubmittedValues :
       /\ webui_config' = values
       /\ config_last' = [op |-> "save",
                          submitted |-> values,
                          returned |-> get_config(config_file),
                          message |-> "Configuration saved successfully. Renderer restarted.",
                          saved |-> TRUE]
  /\ config_file' = get_config_file(config_file)
  /\ UNCHANGED not_config_vars

\* get_config(), called again after the web UI has been used
GetConfig ==
  /\ config_last.op # "init"
  /\ config_last' = [config_last EXCEPT
                       !.op = "get_config",
                       !.returned = get_config(config_file)]
  /\ config_file' = get_config_file(config_file)
  /\ UNCHANGED << webui_config, not_config_vars >>

NextConfig == SaveConfig \/ GetConfig

SpecConfig == InitWith({1}, StartupFiles) /\ [][NextConfig]_vars

(* --------------------- set_active_program properties -------------------- *)
\* C11: set_active_program with an unregistered type returns False and
\* leaves active_program and program_start_time unchanged; with a
\* registered type it returns True, activates the program and sets
\* program_start_time to the current virtual seconds.
C11_SetActiveProgram ==
  last.op = "set_active_program"
  => IF \E i \in 1..Len(programs) : programs[i].type = last.arg
       THEN /\ last.returned
            /\ active_program = last.arg
            /\ program_start_time = last.current_time
       ELSE /\ ~last.returned
            /\ active_program = last.prev_active
            /\ program_start_time = last.prev_start_time

\* an unregistered type was passed after the clock had advanced
C11_Witness ==
  /\ last.op = "set_active_program"
  /\ last.arg = program_runner
  /\ ~last.returned
  /\ last.current_time > program_start_time
  /\ active_program = last.prev_active

\* a registered type was passed and became active at the current time
C11_WitnessRegistered ==
  /\ last.op = "set_active_program"
  /\ last.returned
  /\ last.prev_active # last.arg
  /\ active_program = last.arg
  /\ program_start_time = last.current_time
  /\ program_start_time > last.prev_start_time

(* -------------------------- time_keeper properties ---------------------- *)
\* C12: the values returned by time() never decrease, and a read made
\* right after a scale change returns the value the clock had right
\* before the change.
C12_TimeMonotonic ==
  clock_last.op = "time"
  => /\ clock_last.returned >= clock_last.prev_returned
     /\ (clock_last.prev_op = "set_timescale" /\ ~clock_last.raised)
        => clock_last.returned = clock_last.prev_returned

\* a read right after a scale change made with a pending real-time delta
C12_Witness ==
  /\ clock_last.op = "time"
  /\ clock_last.prev_op = "set_timescale"
  /\ ~clock_last.raised
  /\ clock_last.returned = clock_last.prev_returned
  /\ clock_last.returned > 0
  /\ clock_last.returned < real_clock * timescale

\* C13: a time() read advances virtual time by (real time since the previous
\* read) x (timescale), and over any span the virtual time returned is the
\* sum of the real deltas each multiplied by the scale in force when it passed.
C13_ScaledAdvance ==
  clock_last.op = "time"
  => /\ clock_last.returned =
          clock_last.prev_state[3]
            + (real_clock - clock_last.prev_state[2]) * clock_last.prev_state[1]
     /\ clock_last.returned = ideal_time

\* d1 at scale s1, a scale change, d2 at scale s2 # s1, then a read
C13_Witness ==
  /\ clock_last.op = "time"
  /\ clock_last.prev_op = "tick"
  /\ clock_last.returned = ideal_time
  /\ clock_last.returned # real_clock * timescale
  /\ clock_last.returned # real_clock
  /\ clock_last.prev_state[3] > 0

\* C14: set_timescale(factor) with factor <= 0 raises and leaves timescale,
\* both real-time anchors and both accumulated values unchanged.
C14_RejectedLeavesClock ==
  (clock_last.op = "set_timescale" /\ clock_last.factor <= 0)
  => /\ clock_last.raised
     /\ ClockState = clock_last.prev_state

\* a rejected call made while a real-time delta was pending
C14_Witness ==
  /\ clock_last.op = "set_timescale"
  /\ clock_last.factor <= 0
  /\ clock_last.raised
  /\ real_clock > last_real_time
  /\ real_clock > last_real_datetime
  /\ ClockState = clock_last.prev_state

\* C15: the timescale is positive in every reachable state, whatever the
\* constructor and set_timescale were called with.
C15_TimescalePositive == timescale > 0

(* -------------------------- MenuRenderer properties --------------------- *)
\* C16: a row whose name is not wider than the available width is drawn at
\* scroll offset 0 in every frame, whether or not it is the active row.
C16_FittingRowStaysPut ==
  menu_last.op = "render"
  => \A i \in 0..(Len(drawn) - 1) :
       menu_items[i + 1] <= available_name_width => drawn[i + 1] = 0

\* the active row is exactly as wide as the space, has scroll state, and is
\* drawn some seconds after its activation
C16_Witness ==
  /\ menu_last.op = "render"
  /\ active_item_index < Len(drawn)
  /\ menu_items[active_item_index + 1] = available_name_width
  /\ active_item_index \in DOMAIN scroll_start_times
  /\ menu_now >= scroll_start_times[active_item_index] + 3 * TimeUnitsPerSecond
  /\ drawn[active_item_index + 1] = 0

\* C17: when the forward scroll of the overflowing active row reaches
\* max_scroll before the minimum display time, the direction becomes -1 and
\* the scroll timer restarts; on the following frames of the backward leg the
\* offset drawn is below max_scroll, on its way to 0.
C17_ReversalScrollsBack ==
  LET a == active_item_index
      w == menu_items[a + 1]
      elapsed == menu_now - menu_last.prev_starts[a]
      dwell == menu_now - last_active_change_time
  IN (/\ menu_last.op = "render"
      /\ a < Len(drawn)
      /\ w > available_name_width
      /\ a \in DOMAIN menu_last.prev_starts
      /\ dwell < min_current_time)
     => /\ (/\ menu_last.prev_directions[a] = 1
            /\ scroll_distance(w, elapsed) >= max_scroll(w))
           => /\ scroll_directions[a] = -1
              /\ scroll_start_times[a] = menu_now
              /\ drawn[a + 1] = max_scroll(w)
        /\ (/\ menu_last.prev_directions[a] = -1
            /\ elapsed > 0
            /\ scroll_distance(w, elapsed) < max_scroll(w))
           => drawn[a + 1] < max_scroll(w)

\* C18: when the forward scroll of the overflowing active row is at or past
\* max_scroll and the minimum display time has passed, the row is drawn at
\* exactly max_scroll, the direction stays +1 and the scroll timer is left
\* alone, so every later frame of the activation finds the same case.
C18_DwellReachedStaysAtEnd ==
  LET a == active_item_index
      w == menu_items[a + 1]
      name_overflow == (w - available_name_width + 20) * PixelScale
  IN (/\ menu_last.op = "render"
      /\ a < Len(drawn)
      /\ w > available_name_width
      /\ a \in DOMAIN menu_last.prev_starts
      /\ menu_last.prev_directions[a] = 1
      /\ menu_now - last_active_change_time >= 6 * TimeUnitsPerSecond
      /\ scroll_distance(w, menu_now - menu_last.prev_starts[a]) >= name_overflow)
     => /\ drawn[a + 1] = name_overflow
        /\ scroll_directions[a] = 1
        /\ scroll_start_times[a] = menu_last.prev_starts[a]

\* the much wider name, never reversed, reaches the end after the minimum
\* display time
C18_Witness ==
  /\ menu_last.op = "render"
  /\ active_item_index < Len(drawn)
  /\ menu_items[active_item_index + 1] = VeryWideName
  /\ active_item_index \in DOMAIN menu_last.prev_starts
  /\ menu_last.prev_starts[active_item_index] = last_active_change_time
  /\ menu_last.prev_directions[active_item_index] = 1
  /\ menu_now - last_active_change_time > 6 * TimeUnitsPerSecond
  /\ drawn[active_item_index + 1] = 60 * PixelScale
  /\ scroll_directions[active_item_index] = 1

\* the display time is exactly the minimum when the end is reached
C18_WitnessBoundary ==
  /\ menu_last.op = "render"
  /\ active_item_index < Len(drawn)
  /\ menu_items[active_item_index + 1] > available_name_width
  /\ active_item_index \in DOMAIN menu_last.prev_starts
  /\ menu_last.prev_directions[active_item_index] = 1
  /\ menu_now - last_active_change_time = 6 * TimeUnitsPerSecond
  /\ drawn[active_item_index + 1] = max_scroll(menu_items[active_item_index + 1])
  /\ scroll_directions[active_item_index] = 1

\* C19: every row other than the active one is drawn at offset 0, and a frame
\* neither creates nor changes the scroll start time or direction of any row
\* other than the active one.
C19_InactiveRowsStatic ==
  menu_last.op = "render"
  => /\ \A i \in 0..(Len(drawn) - 1) :
          i # active_item_index => drawn[i + 1] = 0
     /\ \A k \in DOMAIN scroll_start_times :
          k # active_item_index
          => /\ k \in DOMAIN menu_last.prev_starts
             /\ scroll_start_times[k] = menu_last.prev_starts[k]
             /\ scroll_directions[k] = menu_last.prev_directions[k]
     /\ DOMAIN scroll_directions = DOMAIN scroll_start_times

\* an overflowing row without scroll state is drawn next to an active row
\* that is scrolling
C19_Witness ==
  /\ menu_last.op = "render"
  /\ Len(drawn) = 2
  /\ active_item_index < 2
  /\ drawn[active_item_index + 1] > 0
  /\ \E i \in 0..1 :
       /\ i # active_item_index
       /\ menu_items[i + 1] > available_name_width
       /\ i \notin DOMAIN scroll_start_times
       /\ drawn[i + 1] = 0

\* an overflowing row that was active before keeps its scroll state while
\* another row is active
C19_WitnessKept ==
  /\ menu_last.op = "render"
  /\ Len(drawn) = 2
  /\ active_item_index < 2
  /\ \E i \in 0..1 :
       /\ i # active_item_index
       /\ menu_items[i + 1] > available_name_width
       /\ i \in DOMAIN scroll_start_times
       /\ scroll_directions[i] = -1
       /\ drawn[i + 1] = 0

\* C20 as stated: after set_menu_items(items), an active index that is out
\* of range for the new list (the empty list included) becomes 0 and the
\* change time becomes the current time; an index in range leaves both alone.
C20_OutOfRangeResets ==
  menu_last.op = "set_menu_items"
  => IF menu_last.prev_active >= Len(menu_items)
       THEN /\ active_item_index = 0
            /\ last_active_change_time = menu_now
       ELSE /\ active_item_index = menu_last.prev_active
            /\ last_active_change_time = menu_last.prev_change

\* C20 amended: the reset to index 0 and the current time happens only when
\* the active index is out of range and the new list is not empty; with an
\* empty new list, or an index in range, both are left alone.
C20_ResetNeedsItems ==
  menu_last.op = "set_menu_items"
  => IF menu_last.prev_active >= Len(menu_items) /\ Len(menu_items) # 0
       THEN /\ active_item_index = 0
            /\ last_active_change_time = menu_now
       ELSE /\ active_item_index = menu_last.prev_active
            /\ last_active_change_time = menu_last.prev_change

\* the list is emptied while row 1 is active, later than its activation
C20_Witness ==
  /\ menu_last.op = "set_menu_items"
  /\ Len(menu_items) = 0
  /\ menu_last.prev_active = 1
  /\ active_item_index = 1
  /\ menu_now > last_active_change_time

\* the list shrinks below the active row
C20_WitnessReset ==
  /\ menu_last.op = "set_menu_items"
  /\ Len(menu_items) = 1
  /\ menu_last.prev_active = 1
  /\ active_item_index = 0
  /\ last_active_change_time = menu_now
  /\ menu_now > menu_last.prev_change

\* C21: set_active_item(index) with index outside 0..len(menu_items)-1
\* changes nothing (active index, dwell timer, all scroll state); with an
\* index in range it sets the active index, sets the dwell start to now and
\* sets that row's scroll start time to now and its direction to +1.
C21_SetActiveItemBoundsChecked ==
  menu_last.op = "set_active_item"
  => IF 0 <= menu_last.arg /\ menu_last.arg < Len(menu_items)
       THEN /\ active_item_index = menu_last.arg
            /\ last_active_change_time = menu_now
            /\ menu_last.arg \in DOMAIN scroll_start_times
            /\ scroll_start_times[menu_last.arg] = menu_now
            /\ scroll_directions[menu_last.arg] = 1
       ELSE /\ active_item_index = menu_last.prev_active
            /\ last_active_change_time = menu_last.prev_change
            /\ scroll_start_times = menu_last.prev_starts
            /\ scroll_directions = menu_last.prev_directions

\* the index one past the last item is refused while another row, activated
\* earlier, has scroll state
C21_Witness ==
  /\ menu_last.op = "set_active_item"
  /\ Len(menu_items) > 0
  /\ menu_last.arg = Len(menu_items)
  /\ active_item_index = menu_last.prev_active
  /\ DOMAIN scroll_start_times # {}
  /\ menu_now > last_active_change_time

\* a row that had reversed is activated again, later
C21_WitnessInRange ==
  /\ menu_last.op = "set_active_item"
  /\ active_item_index = menu_last.arg
  /\ menu_last.arg \in DOMAIN menu_last.prev_directions
  /\ menu_last.prev_directions[menu_last.arg] = -1
  /\ scroll_directions[menu_last.arg] = 1
  /\ menu_now > menu_last.prev_change

(* ------------------------ workshop_runner properties -------------------- *)
\* C22: while the current row's title overflows, update_location_index leaves
\* the index and the dwell timer alone as long as the dwell is below
\* max_current_time (12 s), and on the first call with dwell >= 12 s it
\* advances the index by one modulo the list length and restarts the timer.
C22_OverflowingRowAdvancesAtMax ==
  (/\ ws_last.op = "render"
   /\ Len(displayed_workshops) > 0
   /\ displayed_workshops[ws_last.prev_index + 1] > available_name_width)
  => IF ws_now - ws_last.prev_change < 12
       THEN /\ current_location_index = ws_last.prev_index
            /\ last_location_change_time = ws_last.prev_change
       ELSE /\ current_location_index =
                 (ws_last.prev_index + 1) % Len(displayed_workshops)
            /\ last_location_change_time = ws_now

\* two rows, the first overflowing: the call 12 s after the runner showed
\* row 0 moves on to row 1
C22_Witness ==
  /\ ws_last.op = "render"
  /\ Len(displayed_workshops) = 2
  /\ displayed_workshops[1] > available_name_width
  /\ ws_last.prev_index = 0
  /\ ws_now - ws_last.prev_change = 12
  /\ current_location_index = 1
  /\ last_location_change_time = ws_now

\* the call at 11 s leaves row 0 current
C22_WitnessBefore ==
  /\ ws_last.op = "render"
  /\ Len(displayed_workshops) = 2
  /\ displayed_workshops[1] > available_name_width
  /\ ws_last.prev_index = 0
  /\ ws_now - ws_last.prev_change = 11
  /\ current_location_index = 0

\* C23: with at least two displayed workshops, a row is left by
\* update_location_index only after it has been current for at least
\* min_current_time (6 s), whether or not its title needs scrolling.
C23_MinimumDwell ==
  (/\ ws_last.op = "render"
   /\ Len(displayed_workshops) >= 2
   /\ current_location_index # ws_last.prev_index)
  => ws_now - ws_last.prev_change >= 6

(* --------------------------- UserInput properties ----------------------- *)
\* C24: an up, down or click event calls the listeners registered for that
\* kind last-registered first, stops after the first one that returns False,
\* and calls no listener registered for another kind.
C24_ListenersLastFirstUntilFalse ==
  LET of_kind == IF input_last = "up" THEN up_listeners
                 ELSE IF input_last = "down" THEN down_listeners
                 ELSE click_listeners
      others == IF input_last = "up" THEN down_listeners \o click_listeners
                ELSE IF input_last = "down" THEN up_listeners \o click_listeners
                ELSE up_listeners \o down_listeners
      n == Len(of_kind)
      refusing == { i \in 1..n : ~of_kind[i].result }
      stop == IF refusing = {} THEN 1
              ELSE CHOOSE i \in refusing : \A j \in refusing : j <= i
  IN input_last \in { "up", "down", "click" }
     => /\ invoked = [k \in 1..(IF n = 0 THEN 0 ELSE n + 1 - stop)
                        |-> of_kind[n + 1 - k].id]
        /\ \A k \in 1..Len(invoked) :
             \A j \in 1..Len(others) : invoked[k] # others[j].id

\* three listeners of one kind, the middle one returning False: the last
\* and the middle one are called, the first is not
C24_Witness ==
  /\ input_last \in { "up", "down", "click" }
  /\ Len(invoked) = 2
  /\ invoked[1] = 3
  /\ invoked[2] = 2
  /\ \/ Len(up_listeners) = 3
     \/ Len(down_listeners) = 3
     \/ Len(click_listeners) = 3

\* listeners of two kinds: the event reaches only its own kind
C24_WitnessOtherKind ==
  /\ input_last = "down"
  /\ Len(down_listeners) = 2
  /\ Len(up_listeners) + Len(click_listeners) = 1
  /\ Len(invoked) = 2

(* -------------------------- frame loop properties ----------------------- *)
\* the longest pause between two frames
LongestFrame == CHOOSE d \in FrameSteps : \A e \in FrameSteps : e <= d

\* the initial program is active outside the burn window, a screensaver is
\* registered, and the run lasts long enough for the idle threshold to pass
C25_BaseIdle ==
  /\ active_program = InitialProgramType
  /\ get_screensaver_programs # << >>
  /\ ~(burn_start_time <= now_value /\ now_value < burn_end_time)
  /\ last_program_switch_time + DISPLAY_SCREENSAVER_AFTER_SECONDS + 3 * LongestFrame
       <= MaxVirtualTime

\* a screensaver is active, or the burn window has opened
C25_ScreensaverOrBurn ==
  \/ active_program # None /\ ProgramOf(active_program).is_screen_saver
  \/ burn_start_time <= now_value /\ now_value < burn_end_time

\* a scheduler step that saw the initial program active outside the burn
\* window, no finished program and the idle threshold reached, with a
\* screensaver registered, leaves a screensaver active
C25_AtFirstIdleFrame ==
  ( /\ last.op = "may_update_program"
    /\ ~last.finished
    /\ last.prev_active = InitialProgramType
    /\ get_screensaver_programs # << >>
    /\ ~(burn_start_time <= last.now /\ last.now < burn_end_time)
    /\ last.current_time - last.prev_switch_time >= DISPLAY_SCREENSAVER_AFTER_SECONDS )
  => ProgramOf(active_program).is_screen_saver

\* C25: under the frame loop, with a screensaver registered and the burn
\* window not active, whenever the initial program is active a screensaver
\* eventually becomes active (unless the burn window opens first), and no
\* later than the first frame that reports no finished program while
\* 30 s or more have passed since last_program_switch_time.
C25_ScreensaverEventually ==
  /\ [] C25_AtFirstIdleFrame
  /\ C25_BaseIdle ~> C25_ScreensaverOrBurn

\* the idle rule took the scheduler from the initial program to a screensaver
C25_Witness ==
  /\ last.op = "may_update_program"
  /\ last.rule = "idle"
  /\ last.prev_active = InitialProgramType
  /\ last.current_time - last.prev_switch_time >= DISPLAY_SCREENSAVER_AFTER_SECONDS
  /\ ProgramOf(active_program).is_screen_saver

\* C26: under the frame loop, once a finished screensaver has given way to
\* the initial program, the scheduler starts the next screensaver no sooner
\* than 30 virtual seconds later, unless the burn program ran in between.
C26_BaseHoldsIdleThreshold ==
  ( /\ last.op = "may_update_program"
    /\ last.rule = "idle"
    /\ last.prev_active = InitialProgramType
    /\ last.prev_return_time # NoTime )
  => last.current_time - last.prev_return_time >= DISPLAY_SCREENSAVER_AFTER_SECONDS

\* C27: a scheduler step inside the burn window, with the burn program
\* already active and no finished program reported, leaves the active
\* program, program_start_time, last_program_switch_time and the
\* round-robin index as they were.
C27_BurnStepChangesNothing ==
  ( /\ last.op = "may_update_program"
    /\ ~last.finished
    /\ burn_start_time <= last.now /\ last.now < burn_end_time
    /\ last.prev_active = burn_program_runner )
  => /\ active_program = last.prev_active
     /\ program_start_time = last.prev_start_time
     /\ last_program_switch_time = last.prev_switch_time
     /\ last_screen_saver_index = last.prev_index

\* such a step, taken later than the frame that started the burn program
C27_Witness ==
  /\ last.op = "may_update_program"
  /\ ~last.finished
  /\ burn_start_time <= last.now /\ last.now < burn_end_time
  /\ last.prev_active = burn_program_runner
  /\ last.current_time > last.prev_start_time
  /\ last.current_time > last.prev_switch_time

\* C28: under the frame loop the burn window is the one fixed at
\* construction and the scheduler starts the burn program at most once in
\* a run: a step that makes the burn program active is the first to do so.
C28_BurnActivatedAtMostOnce ==
  /\ burn_start_time = BurnStartDelaySeconds
  /\ burn_end_time = BurnStartDelaySeconds + ProgramOf(burn_program_runner).play_duration
  /\ burn_activations <= 1
  /\ ( /\ last.op = "may_update_program"
       /\ active_program = burn_program_runner
       /\ last.prev_active # burn_program_runner )
     => /\ last.prev_burn_activations = 0
        /\ burn_start_time <= last.now /\ last.now < burn_end_time

\* a scheduler step taken after the burn program ran out its play duration
C28_Witness ==
  /\ last.op = "may_update_program"
  /\ last.prev_burn_activations = 1
  /\ last.prev_active # burn_program_runner
  /\ last.now >= burn_end_time
  /\ active_program # burn_program_runner

\* the burn program is ended by its play duration
C28_WitnessExpired ==
  /\ last.op = "may_update_program"
  /\ last.rule = "finished"
  /\ last.reason = DURATION_EXPIRED
  /\ last.prev_active = burn_program_runner

\* the burn program is ended by the window closing
C28_WitnessWindowClosed ==
  /\ last.op = "may_update_program"
  /\ last.rule = "burn_exit"
  /\ last.prev_active = burn_program_runner
  /\ active_program = InitialProgramType

(* ---------------------- scroll state properties ------------------------- *)
\* C29: on every frame where the overflowing active row has been active for
\* the minimum display time or longer and the distance of the current leg
\* has reached max_scroll, the row is drawn at exactly max_scroll, whether
\* the leg runs forward or, after a reversal, backward.
C29_ExtremeHeldInEitherDirection ==
  LET a == active_item_index
      w == menu_items[a + 1]
      name_overflow == (w - available_name_width + 20) * PixelScale
  IN (/\ menu_last.op = "render"
      /\ a < Len(drawn)
      /\ w > available_name_width
      /\ a \in DOMAIN menu_last.prev_starts
      /\ menu_last.prev_directions[a] \in {1, -1}
      /\ menu_now - last_active_change_time >= 6 * TimeUnitsPerSecond
      /\ menu_now - menu_last.prev_starts[a] > acceleration_time(w)
      /\ scroll_distance(w, menu_now - menu_last.prev_starts[a]) >= name_overflow)
     => drawn[a + 1] = name_overflow

\* C30: when a call makes a row the active one (set_active_item with an
\* index in range, or set_menu_items resetting the active index to 0), the
\* scroll state the next frame finds for that row is a fresh one: whatever
\* entry the row has starts at the time of the call and runs forward, so
\* nothing is left over from an earlier activation of the row index.
C30_ActivationReinitializesScroll ==
  LET a == active_item_index
      activated ==
        \/ /\ menu_last.op = "set_active_item"
           /\ 0 <= menu_last.arg /\ menu_last.arg < Len(menu_items)
        \/ /\ menu_last.op = "set_menu_items"
           /\ menu_last.prev_active >= Len(menu_items)
           /\ Len(menu_items) > 0
  IN (activated /\ a \in DOMAIN scroll_start_times)
     => /\ scroll_start_times[a] = menu_now
        /\ scroll_directions[a] = 1

\* C31: a row whose name fits the space has no scroll state: after any
\* operation, no row of the list with a fitting name has an entry in
\* scroll_start_times or scroll_directions.
C31_FittingRowKeepsNoState ==
  \A i \in 0..(Len(menu_items) - 1) :
    menu_items[i + 1] <= available_name_width
      => /\ i \notin DOMAIN scroll_start_times
         /\ i \notin DOMAIN scroll_directions

(* ------------------------- scroll curve properties ---------------------- *)
\* the frame just rendered drew the overflowing active row on a forward leg
\* that had run for t tenths of a second
C32_ForwardFrame(t) ==
  LET a == active_item_index IN
  /\ menu_last.op = "render"
  /\ menu_last.at = menu_now
  /\ a < Len(drawn)
  /\ menu_items[a + 1] > available_name_width
  /\ IF a \in DOMAIN menu_last.prev_starts
       THEN /\ menu_last.prev_directions[a] = 1
            /\ t = menu_now - menu_last.prev_starts[a]
       ELSE t = 0

\* 4 * scroll_speed * acceleration_time, in tenths of a second, of a name
\* that overflows by max_px - 20 pixels:
\* acceleration_time = min(0.25 * max_scroll / scroll_speed, 1.0)
C32_Acceleration(max_px) ==
  IF max_px * 10 <= 4 * 10 * 10 THEN max_px * 10 ELSE 4 * 10 * 10

\* the offset of a forward leg that has not reached max_scroll is
\* scroll_speed * t * t / (2 * acceleration_time) up to t = acceleration_time
\* and scroll_speed * acceleration_time / 2 + scroll_speed * (t - acceleration_time)
\* from there on, in whole thousandths of a pixel (speed 10 px/s)
C32_OnTheCurve ==
  \A t \in 0..MaxMenuTime :
    LET a == active_item_index
        max_px == menu_items[a + 1] - available_name_width + 20
        acc == C32_Acceleration(max_px)
        offset == drawn[a + 1]
    IN C32_ForwardFrame(t) =>
         /\ (4 * 10 * t <= acc)
              => /\ offset * 10 * acc <= 2 * 10 * 10 * 1000 * t * t
                 /\ 2 * 10 * 10 * 1000 * t * t < (offset + 1) * 10 * acc
         /\ (4 * 10 * t >= acc /\ 1000 * (8 * 10 * t - acc) < 8 * 10 * max_px * 1000)
              => /\ offset * 8 * 10 <= 1000 * (8 * 10 * t - acc)
                 /\ 1000 * (8 * 10 * t - acc) < (offset + 1) * 8 * 10

\* from one frame to the next of the same forward leg the offset does not
\* decrease
C32_NonDecreasing ==
  LET a == active_item_index IN
  ( /\ menu_last.op = "render"
    /\ menu_last'.op = "render"
    /\ a < Len(drawn)
    /\ menu_items[a + 1] > available_name_width
    /\ a \in DOMAIN scroll_start_times
    /\ scroll_directions[a] = 1
    /\ scroll_directions'[a] = 1
    /\ scroll_start_times'[a] = scroll_start_times[a] )
  => drawn'[a + 1] >= drawn[a + 1]

\* C32: on a forward leg that has not reached max_scroll the offset at
\* elapsed time t follows the quadratic ease-in up to acceleration_time and
\* the constant speed from there on, the two agreeing at acceleration_time
\* (a frame at t = acceleration_time satisfies both), and the offset does
\* not decrease from frame to frame.
C32_ForwardLegCurve ==
  /\ [] C32_OnTheCurve
  /\ [][C32_NonDecreasing]_vars

\* a frame inside the ease-in, where the quadratic differs from a straight line
C32_Witness ==
  \E t \in 1..MaxMenuTime :
    /\ C32_ForwardFrame(t)
    /\ 4 * 10 * t < C32_Acceleration(menu_items[active_item_index + 1]
                                      - available_name_width + 20)
    /\ t > 1
    /\ drawn[active_item_index + 1] > 0

\* a frame at exactly t = acceleration_time
C32_WitnessJunction ==
  \E t \in 1..MaxMenuTime :
    /\ C32_ForwardFrame(t)
    /\ 4 * 10 * t = C32_Acceleration(menu_items[active_item_index + 1]
                                      - available_name_width + 20)

\* a frame at constant speed, before max_scroll
C32_WitnessConstantSpeed ==
  \E t \in 1..MaxMenuTime :
    /\ C32_ForwardFrame(t)
    /\ 4 * 10 * t > C32_Acceleration(menu_items[active_item_index + 1]
                                      - available_name_width + 20)
    /\ drawn[active_item_index + 1]
         < (menu_items[active_item_index + 1] - available_name_width + 20) * 1000

\* C33: every row of every frame is drawn at an offset from 0 to
\* max_scroll = W - V + 20, whatever the elapsed time, the display time and
\* the direction; a row whose name fits is drawn at 0.  The rows are those
\* of the frame MenuRenderer.render has just drawn and those of the last
\* frame of workshop_runner.render.
C33_OffsetWithinBounds ==
  /\ menu_last.op = "render" =>
       \A i \in 1..Len(drawn) :
         /\ i <= Len(menu_items)
         /\ 0 <= drawn[i]
         /\ IF menu_items[i] > available_name_width
              THEN drawn[i] <= (menu_items[i] - available_name_width + 20) * PixelScale
              ELSE drawn[i] = 0
  /\ \A i \in 1..Len(ws_drawn) :
       /\ i <= Len(displayed_workshops)
       /\ 0 <= ws_drawn[i]
       /\ IF displayed_workshops[i] > available_name_width
            THEN ws_drawn[i]
                   <= (displayed_workshops[i] - available_name_width + 20) * PixelScale
            ELSE ws_drawn[i] = 0

\* a frame of a backward leg, where the position before the clamp is
\* negative: the row is drawn at max_scroll
C33_Witness ==
  LET a == active_item_index IN
  /\ menu_last.op = "render"
  /\ a < Len(drawn)
  /\ menu_items[a + 1] > available_name_width
  /\ a \in DOMAIN menu_last.prev_starts
  /\ menu_last.prev_directions[a] = -1
  /\ menu_now > menu_last.prev_starts[a]
  /\ drawn[a + 1] = (menu_items[a + 1] - available_name_width + 20) * PixelScale

\* a frame of a forward leg strictly between the two ends
C33_WitnessForward ==
  LET a == active_item_index IN
  /\ menu_last.op = "render"
  /\ a < Len(drawn)
  /\ menu_items[a + 1] > available_name_width
  /\ 0 < drawn[a + 1]
  /\ drawn[a + 1] < (menu_items[a + 1] - available_name_width + 20) * PixelScale

(* --------------------- workshop_runner on the scaled clock -------------- *)
\* C34: the dwell of the current row is counted in virtual seconds: with
\* timescale k an overflowing current row is left alone while k times the
\* host seconds since it became current is below max_current_time (12), and
\* is replaced by the first update_location_index call from there on.
C34_DwellInVirtualSeconds ==
  (/\ ws_last.op = "render"
   /\ Len(displayed_workshops) > 0
   /\ displayed_workshops[ws_last.prev_index + 1] > available_name_width
   /\ time_value = timescale * real_clock)
  => IF timescale * (ws_now - ws_last.prev_change) < 12
       THEN /\ current_location_index = ws_last.prev_index
            /\ last_location_change_time = ws_last.prev_change
       ELSE /\ current_location_index =
                 (ws_last.prev_index + 1) % Len(displayed_workshops)
            /\ last_location_change_time = ws_now

(* ------------------------ active program properties --------------------- *)
\* there is an active program
C35_Present == active_program # None

\* a set_active_program call that returned False left the active program
C35_FailedCallKeeps ==
  (last.op = "set_active_program" /\ ~last.returned)
    => active_program = last.prev_active

\* no step takes the active program away
C35_NeverCleared == active_program # None => active_program' # None

\* C35: the manager has an active program from its construction on (the
\* first registered program, then the workshop program the scheduler
\* activates), and no set_active_program call, failed ones included, no
\* run_program call and no scheduler step empties active_program again; a
\* failed call leaves the program that was active.
C35_ActiveProgramStays ==
  /\ [] C35_Present
  /\ [] C35_FailedCallKeeps
  /\ [][C35_NeverCleared]_vars

\* a call with a type that is not registered fails between run_program and
\* the scheduler step of a frame, and the active program is still there
C35_Witness ==
  /\ last.op = "set_active_program"
  /\ ~last.returned
  /\ last.arg = program_runner
  /\ pc = "schedule"
  /\ active_program = last.prev_active
  /\ active_program # None

\* a scheduler step handles the finish of a program that an outside call has
\* replaced in the meantime
C35_WitnessReplaced ==
  /\ last.op = "may_update_program"
  /\ last.rule = "finished"
  /\ result.finished_program_type # last.prev_active
  /\ active_program # None

C37_FinishedOncePerPass ==
  eye_last.finished /\ eye_last.reported_before => eye_last.close_again_before

\* C39: after _save_config returned its success message, config.yaml holds
\* the submitted values and a later get_config() returns them
C39_SavedValuesPersist ==
  /\ config_last.op = "save" /\ config_last.message # ""
       => config_file.content = config_last.submitted
  /\ config_last.op = "get_config" /\ config_last.saved
       => config_last.returned = config_last.submitted

\* C38: whatever has started and whatever is coming up, a
\* may_update_workshops call leaves at most max_workshops workshops
\* displayed and, when any is displayed, a current_location_index inside
\* the list
C38_AfterUpdate ==
  \A started \in StartedSets, upcoming \in UpcomingLists :
    LET after == may_update_workshops(ws_self, refreshed(started, upcoming))
    IN /\ Len(after.displayed) <= max_workshops
       /\ after.displayed # << >>
            => after.index >= 0 /\ after.index < Len(after.displayed)

\* C38: after every frame the list has at most max_workshops entries and
\* the index update_location_index and render_location use is inside it
C38_IndexInsideList ==
  /\ Len(displayed_workshops) <= max_workshops
  /\ displayed_workshops # << >>
       => /\ current_location_index >= 0
          /\ current_location_index < Len(displayed_workshops)
  /\ C38_AfterUpdate

\* a refresh removed the current second row, and the index went back to 0
C38_Witness ==
  /\ ws_last.op = "render"
  /\ ws_last.updated
  /\ ~ws_last.switched
  /\ Len(ws_last.prev_displayed) = max_workshops
  /\ Len(displayed_workshops) = 1
  /\ current_location_index = 0
  /\ last_location_change_time = ws_now
  /\ ws_now > workshop_update_interval

\* a refresh filled a free slot although more workshops were coming up
C38_WitnessFilled ==
  /\ ws_last.op = "render"
  /\ ws_last.updated
  /\ Len(ws_last.prev_displayed) = 1
  /\ Len(displayed_workshops) = max_workshops
  /\ current_location_index = 1

====
